---- MODULE Spec2Model ----
(***************************************************************************)
(* The `apply` command of aidx (src/src/index.ts): the clipboard text is   *)
(* scanned for <file path="P">...</file> and <delete path="P"/> tags, the  *)
(* changes are previewed, the operator confirms, and the changes are       *)
(* written to disk with optional .bak backups.                             *)
(*                                                                         *)
(* A text is a sequence of lexemes (the units the two regular expressions  *)
(* of the command tell apart); a path is the sequence of its components;   *)
(* the filesystem maps every path of the model to nothing, a directory or  *)
(* a file with its content.                                                *)
(***************************************************************************)
EXTENDS Integers, Sequences, FiniteSets, TLC

VARIABLES
    fs,              \* the working tree: path -> entry
    clipboard,       \* the text on the clipboard
    pc,              \* the phase of the invocation
    ended,           \* the action has returned
    backupsEnabled,  \* const backupsEnabled (line 261)
    content,         \* let content (line 263)
    updates,         \* const updates (line 269)
    idx,             \* position of the for-of loops (lines 278, 306)
    stage,           \* position inside the try block of the apply loop
    proceed,         \* the operator's decision: "none" before the prompt
    console,         \* the lines printed so far
    iolog,           \* the mutating filesystem calls made so far, with results
    fs0,             \* the working tree when the command started
    pre,             \* the working tree when the current directive started
    selectedFiles,   \* let selectedFiles (line 199) of the copy command
    output,          \* let output (line 210)
    skippedCount     \* let skippedCount (line 211)

vars == <<fs, clipboard, pc, ended, backupsEnabled, content, updates, idx,
          stage, proceed, console, iolog, fs0, pre, selectedFiles, output, skippedCount>>

(***************************************************************************)
(* Bounds of the model.                                                    *)
(***************************************************************************)
MaxTags == 2
MaxTextLen == 5
MaxInputLen == 3
MaxReplaced == 26
MaxCommands == 3

(***************************************************************************)
(* Lexemes.                                                                *)
(***************************************************************************)
Tok(k, v) == [k |-> k, v |-> v]
Open(p) == Tok("open", p)
Close == Tok("close", <<>>)
Del(p) == Tok("del", p)
Fence == Tok("fence", <<>>)
FenceXml == Tok("fencexml", <<>>)
Ws == Tok("ws", <<>>)
Ch(c) == Tok("ch", <<c>>)

(***************************************************************************)
(* Paths.                                                                  *)
(***************************************************************************)
CONFIG_FILE == <<".aidxrc.json">>

\* path.resolve(process.cwd(), p): the working directory is the empty path.
Resolve(p) == p

\* one backup file for the whole run
BakOfRun(p) == <<"a.bak">>

\* `${targetPath}.bak`
Bak(p) == IF p = <<>> THEN <<"..bak">> ELSE [p EXCEPT ![Len(p)] = @ \o ".bak"]

\* path.dirname(targetPath)
Dirname(p) == IF p = <<>> THEN <<>> ELSE SubSeq(p, 1, Len(p) - 1)

PathA == <<"a">>
PathD == <<"d">>
PathDB == <<"d", "b">>
PathEnv == <<"app.env.ts">>
PathE == <<"e">>
PathEF == <<"e", "f">>
PathEFG == <<"e", "f", "g">>

WritePaths == {PathA, PathDB}
DeletePaths == {PathA, PathD}
TagPaths == WritePaths \cup DeletePaths

Prefixes(p) == {SubSeq(p, 1, n) : n \in 0..Len(p)}

Nodes ==
    LET base == TagPaths \cup {CONFIG_FILE, Bak(PathA)}
        withBak == base \cup {Bak(p) : p \in base}
    IN UNION {Prefixes(p) : p \in withBak \cup {PathEnv, PathEFG, Bak(PathEFG)}}

(***************************************************************************)
(* Filesystem entries and the calls of fs/promises the command makes.      *)
(* Each call returns the new tree and the error code ("" when it succeeds).*)
(* `fault` is a failure of the environment (permissions, disk pressure)    *)
(* that the tree itself does not explain.                                  *)
(***************************************************************************)
None == [t |-> "none", c |-> <<>>]
Dir == [t |-> "dir", c |-> <<>>]
File(c) == [t |-> "file", c |-> c]

Result(f, e) == [fs |-> f, err |-> e]

\* fs.readFile(p, 'utf-8')
ReadFile(f, p) ==
    IF f[p].t = "file" THEN [ok |-> TRUE, c |-> f[p].c]
    ELSE [ok |-> FALSE, c |-> <<>>]

\* a copy that keeps a destination that already exists (the first backup
\* generation instead of the latest)
CopyFileKeepExisting(f, src, dst, fault) ==
    IF f[src].t = "none" THEN Result(f, "ENOENT")
    ELSE IF f[src].t = "dir" \/ f[dst].t = "dir" THEN Result(f, "EISDIR")
    ELSE IF fault # "" THEN Result(f, "EACCES")
    ELSE IF f[dst].t = "file" THEN Result(f, "")
    ELSE Result([f EXCEPT ![dst] = f[src]], "")

\* fs.copyFile(src, dst): the destination is overwritten
CopyFile(f, src, dst, fault) ==
    IF f[src].t = "none" THEN Result(f, "ENOENT")
    ELSE IF f[src].t = "dir" \/ f[dst].t = "dir" THEN Result(f, "EISDIR")
    ELSE IF fault # "" THEN Result(f, "EACCES")
    ELSE Result([f EXCEPT ![dst] = f[src]], "")

\* an unlink that clears the backup sibling along with the file
UnlinkWithSibling(f, p, fault) ==
    IF f[p].t = "none" THEN Result(f, "ENOENT")
    ELSE IF f[p].t = "dir" THEN Result(f, "EISDIR")
    ELSE IF fault # "" THEN Result(f, "EACCES")
    ELSE Result([f EXCEPT ![p] = None, ![Bak(p)] = None], "")

\* fs.unlink(p)
Unlink(f, p, fault) ==
    IF f[p].t = "none" THEN Result(f, "ENOENT")
    ELSE IF f[p].t = "dir" THEN Result(f, "EISDIR")
    ELSE IF fault # "" THEN Result(f, "EACCES")
    ELSE Result([f EXCEPT ![p] = None], "")

\* a mkdir without { recursive: true }: one level, and an error when the
\* directory is already there
MkdirOneLevel(f, d, fault) ==
    IF d = <<>> \/ f[d].t # "none" THEN Result(f, "EEXIST")
    ELSE IF f[Dirname(d)].t # "dir" THEN Result(f, "ENOENT")
    ELSE IF fault # "" THEN Result(f, "EACCES")
    ELSE Result([f EXCEPT ![d] = Dir], "")

\* fs.mkdir(d, { recursive: true })
Mkdir(f, d, fault) ==
    IF \E q \in Prefixes(d) : f[q].t = "file" THEN Result(f, "ENOTDIR")
    ELSE IF \A q \in Prefixes(d) : f[q].t = "dir" THEN Result(f, "")
    ELSE IF fault # "" THEN Result(f, "EACCES")
    ELSE Result([q \in DOMAIN f |-> IF q \in Prefixes(d) THEN Dir ELSE f[q]], "")

\* a write with the 'a' flag: the data is added to what the file holds
WriteFileAppend(f, p, data, fault) ==
    IF f[p].t = "dir" THEN Result(f, "EISDIR")
    ELSE IF f[Dirname(p)].t # "dir" THEN Result(f, "ENOENT")
    ELSE IF fault = "EACCES" THEN Result(f, "EACCES")
    ELSE IF fault = "ENOSPC" THEN Result([f EXCEPT ![p] = File(<<>>)], "ENOSPC")
    ELSE Result([f EXCEPT ![p] = File(f[p].c \o data)], "")

\* fs.writeFile(p, data): the file is opened with O_TRUNC and then written, so
\* a failure of the write after the open (ENOSPC) leaves it empty.
WriteFile(f, p, data, fault) ==
    IF f[p].t = "dir" THEN Result(f, "EISDIR")
    ELSE IF f[Dirname(p)].t # "dir" THEN Result(f, "ENOENT")
    ELSE IF fault = "EACCES" THEN Result(f, "EACCES")
    ELSE IF fault = "ENOSPC" THEN Result([f EXCEPT ![p] = File(<<>>)], "ENOSPC")
    ELSE Result([f EXCEPT ![p] = File(data)], "")

Faults == {"", "EACCES"}
WriteFaults == {"", "EACCES", "ENOSPC"}

(***************************************************************************)
(* The persisted backup preference.                                        *)
(***************************************************************************)
\* the lexemes of a JSON text
LBrace == Tok("lbrace", <<>>)
RBrace == Tok("rbrace", <<>>)
Colon == Tok("colon", <<>>)
Comma == Tok("comma", <<>>)
JStr(s) == Tok("str", <<s>>)
JLit(l) == Tok("lit", <<l>>)

\* the text JSON.stringify({ backup: enabled }, null, 2) writes
CfgText(enabled) ==
    <<LBrace, Ws, JStr("backup"), Colon, Ws, JLit(IF enabled THEN "true" ELSE "false"),
      Ws, RBrace>>

\* JSON.parse(data) for scalars and objects of scalars: white space is
\* skipped, a later member replaces an earlier one of the same name, anything
\* else is a SyntaxError
JsonParse(data) ==
    LET t == SelectSeq(data, LAMBDA x : x.k # "ws")
        n == Len(t) - 2
        inner == SubSeq(t, 2, Len(t) - 1)
        Member(i) == /\ (i % 4 = 1 => inner[i].k = "str")
                     /\ (i % 4 = 2 => inner[i].k = "colon")
                     /\ (i % 4 = 3 => inner[i].k \in {"str", "lit"})
                     /\ (i % 4 = 0 => inner[i].k = "comma")
        keys == {inner[i].v[1] : i \in {i \in 1..n : i % 4 = 1}}
        Last(key) == CHOOSE i \in 1..n :
                        /\ i % 4 = 1 /\ inner[i].v[1] = key
                        /\ \A j \in (i + 1)..n : j % 4 = 1 => inner[j].v[1] # key
    IN IF Len(t) = 1 /\ t[1].k \in {"str", "lit"}
       THEN [ok |-> TRUE, k |-> t[1].k, v |-> t[1].v, members |-> <<>>]
       ELSE IF /\ Len(t) >= 2 /\ t[1] = LBrace /\ t[Len(t)] = RBrace
               /\ (n = 0 \/ n % 4 = 3)
               /\ \A i \in 1..n : Member(i)
       THEN [ok |-> TRUE, k |-> "object", v |-> <<>>,
             members |-> [key \in keys |-> inner[Last(key) + 2]]]
       ELSE [ok |-> FALSE, k |-> "SyntaxError", v |-> <<>>, members |-> <<>>]

\* !!value
Truthy(value) ==
    IF value.k = "lit" THEN value.v[1] \in {"true", "1"} ELSE value.v[1] # ""

\* the try block of getBackupStatus (lines 63-66): the error it throws, if
\* any, and the value it returns
ReadPreference(f, fault) ==
    LET p == Resolve(CONFIG_FILE)
        config == JsonParse(f[p].c)
    IN IF f[p].t = "none" THEN [err |-> "ENOENT", v |-> FALSE]
       ELSE IF f[p].t = "dir" THEN [err |-> "EISDIR", v |-> FALSE]
       ELSE IF fault # "" THEN [err |-> "EACCES", v |-> FALSE]
       ELSE IF ~config.ok THEN [err |-> "SyntaxError", v |-> FALSE]
       ELSE IF config.k = "lit" /\ config.v = <<"null">> THEN [err |-> "TypeError", v |-> FALSE]
       ELSE IF config.k = "object" /\ "backup" \in DOMAIN config.members
       THEN [err |-> "", v |-> Truthy(config.members["backup"])]
       ELSE [err |-> "", v |-> FALSE]

\* a getBackupStatus without the catch
PreferenceRethrown(r) == [thrown |-> r.err # "", v |-> r.v]

\* catch (e) { return false; } (lines 67-69)
PreferenceCaught(r) == [thrown |-> FALSE, v |-> IF r.err # "" THEN FALSE ELSE r.v]

\* getBackupStatus as its caller sees it
GetBackupStatusCall(f, fault) == PreferenceCaught(ReadPreference(f, fault))

\* getBackupStatus: false on any read or parse failure
GetBackupStatus(f) == GetBackupStatusCall(f, "").v

(***************************************************************************)
(* Extraction (lines 266-273).                                             *)
(***************************************************************************)
\* content.replace(/```xml/g, '').replace(/```/g, '')
Cleaned(text) == SelectSeq(text, LAMBDA t : t.k \notin {"fence", "fencexml"})

\* String.prototype.trim on a body
RECURSIVE TrimLeft(_)
TrimLeft(s) == IF s # <<>> /\ Head(s).k = "ws" THEN TrimLeft(Tail(s)) ELSE s
RECURSIVE TrimRight(_)
TrimRight(s) ==
    IF s # <<>> /\ s[Len(s)].k = "ws" THEN TrimRight(SubSeq(s, 1, Len(s) - 1)) ELSE s
Trim(s) == TrimRight(TrimLeft(s))

\* the least index >= from whose lexeme has kind k, or 0
FirstAt(text, k, from) ==
    LET hits == {i \in from..Len(text) : text[i].k = k}
    IN IF hits = {} THEN 0 ELSE CHOOSE i \in hits : \A j \in hits : i <= j

WriteUpdate(p, c) == [type |-> "write", path |-> p, content |-> c]
DeleteUpdate(p) == [type |-> "delete", path |-> p, content |-> <<>>]

\* a scan that takes the rest of the text for the body of an unclosed tag
RECURSIVE ScanWritesUnclosed(_, _)
ScanWritesUnclosed(text, from) ==
    LET o == FirstAt(text, "open", from)
        c == IF o = 0 THEN 0 ELSE FirstAt(text, "close", o + 1)
    IN IF o = 0 THEN <<>>
       ELSE IF c = 0 THEN <<WriteUpdate(text[o].v, Trim(SubSeq(text, o + 1, Len(text))))>>
       ELSE <<WriteUpdate(text[o].v, Trim(SubSeq(text, o + 1, c - 1)))>>
            \o ScanWritesUnclosed(text, c + 1)

\* while ((match = fileRegex.exec(cleanedContent)) !== null) ... (line 272):
\* the leftmost opening tag, its body up to the first closing tag after it,
\* and the scan goes on behind that closing tag.
RECURSIVE ScanWrites(_, _)
ScanWrites(text, from) ==
    LET o == FirstAt(text, "open", from)
        c == IF o = 0 THEN 0 ELSE FirstAt(text, "close", o + 1)
    IN IF o = 0 \/ c = 0 THEN <<>>
       ELSE <<WriteUpdate(text[o].v, Trim(SubSeq(text, o + 1, c - 1)))>>
            \o ScanWrites(text, c + 1)

\* a scan that passes over the delete tags standing in the body of a write tag
RECURSIVE ScanDeletesOutside(_, _)
ScanDeletesOutside(text, from) ==
    LET d == FirstAt(text, "del", from)
        inBody == \E o \in 1..(d - 1) :
                    /\ text[o].k = "open"
                    /\ \A c \in (o + 1)..(d - 1) : text[c].k # "close"
                    /\ \E c \in (d + 1)..Len(text) : text[c].k = "close"
    IN IF d = 0 THEN <<>>
       ELSE (IF inBody THEN <<>> ELSE <<DeleteUpdate(text[d].v)>>)
            \o ScanDeletesOutside(text, d + 1)

\* while ((match = deleteRegex.exec(cleanedContent)) !== null) ... (line 273)
RECURSIVE ScanDeletes(_, _)
ScanDeletes(text, from) ==
    LET d == FirstAt(text, "del", from)
    IN IF d = 0 THEN <<>>
       ELSE <<DeleteUpdate(text[d].v)>> \o ScanDeletes(text, d + 1)

\* one scan for both tags, which keeps the document order of all directives
RECURSIVE ScanDocumentOrder(_, _)
ScanDocumentOrder(text, from) ==
    LET o == FirstAt(text, "open", from)
        c == IF o = 0 THEN 0 ELSE FirstAt(text, "close", o + 1)
        d == FirstAt(text, "del", from)
    IN IF d # 0 /\ (o = 0 \/ c = 0 \/ d < o)
       THEN <<DeleteUpdate(text[d].v)>> \o ScanDocumentOrder(text, d + 1)
       ELSE IF o = 0 \/ c = 0 THEN <<>>
       ELSE <<WriteUpdate(text[o].v, Trim(SubSeq(text, o + 1, c - 1)))>>
            \o ScanDocumentOrder(text, c + 1)
ExtractDocumentOrder(text) == ScanDocumentOrder(Cleaned(text), 1)

\* lines 266-273: all writes, then all deletes
ExtractUpdates(text) ==
    LET cleanedContent == Cleaned(text)
    IN ScanWrites(cleanedContent, 1) \o ScanDeletes(cleanedContent, 1)


(***************************************************************************)
(* Console lines and the trace of filesystem calls.                        *)
(***************************************************************************)
Line(k, p, m) == [k |-> k, p |-> p, m |-> m]
IoCall(i, op, p, err) == [i |-> i, op |-> op, p |-> p, err |-> err]

\* the same statements with the backup taken after the mutation
DeleteStagesUnlinkFirst == <<"unlink", "backup">>
WriteStagesWriteFirst == <<"mkdir", "write", "backup">>

\* the statements of the try block, in the order the code runs them
DeleteStages == <<"backup", "unlink">>
WriteStages == <<"mkdir", "backup", "write">>
Stages(u) == IF u.type = "delete" THEN DeleteStages ELSE WriteStages

\* an apply loop without the catch: the error ends the action
Rethrown(i, con, p, err) == [pc |-> "Crashed", idx |-> i, console |-> con]

\* catch (e) { console.log(ERROR path: e.message) } (line 322): the loop goes on
Caught(i, con, p, err) ==
    [pc |-> "Applying", idx |-> i + 1, console |-> Append(con, Line("error", p, err))]

\* a catch that puts the tree back as the run found it
TreeRestored(f, begin) == begin

\* catch (e) { console.log(...) } (line 322) undoes nothing: the tree stays as
\* the failed call left it
TreeAfterCatch(f, begin) == f

\* a backup inside the try block of the loop only: its error ends the directive
CopyErrorRethrown(err) == err # ""

\* try { await fs.copyFile(...) } catch(e) {} (lines 311, 317): the error of
\* the copy never leaves the inner try
CopyErrorEscapes(err) == FALSE

\* a prompt whose failure is taken for consent
DecideDefaultYes(answer, con) ==
    IF answer = "no" THEN [pc |-> "Aborted", console |-> Append(con, Line("aborted", <<>>, ""))]
    ELSE [pc |-> "Applying", console |-> Append(con, Line("blank", <<>>, ""))]

\* lines 301-303: let proceed = false; try { proceed = await confirm() }
\* catch { return }; if (!proceed) return console.log('Aborted.')
Decide(answer, con) ==
    IF answer = "throw" THEN [pc |-> "Aborted", console |-> con]
    ELSE IF answer = "no"
    THEN [pc |-> "Aborted", console |-> Append(con, Line("aborted", <<>>, ""))]
    ELSE [pc |-> "Applying", console |-> Append(con, Line("blank", <<>>, ""))]

(***************************************************************************)
(* The diff of the preview (lines 286-296).  Diff.diffLines compares two   *)
(* texts line by line; a lexeme of a content stands for one line.          *)
(***************************************************************************)
SetMax(S) == CHOOSE x \in S : \A y \in S : y <= x

\* the table T[i][j] = length of the longest common subsequence of old[i+1..]
\* and new[j+1..] is kept as the sequence of its rows, a row as a sequence.
\* Row i from row i + 1 (`below`): old[i+1] is left out, or it is paired with
\* an equal line new[k], k > j.
LcsRow(old, new, i, below) ==
    LET row == [jj \in 1..(Len(new) + 1) |->
                    SetMax({below[jj]}
                           \cup {1 + below[k + 1] :
                                    k \in {k \in jj..Len(new) : new[k] = old[i + 1]}})]
    IN SubSeq(row, 1, Len(new) + 1)

\* n more rows on top of the rows known (acc holds the last rows of the table)
RECURSIVE LcsRows(_, _, _, _)
LcsRows(old, new, acc, n) ==
    IF n = 0 \/ Len(acc) = Len(old) + 1 THEN acc
    ELSE IF n = 1 THEN <<LcsRow(old, new, Len(old) - Len(acc), Head(acc))>> \o acc
    ELSE LcsRows(old, new, LcsRows(old, new, acc, n \div 2), n - (n \div 2))

\* an edit joins the last part when it is of its kind, else it opens a part
PushEdit(out, kind, line) ==
    IF out # <<>> /\ out[Len(out)].k = kind
    THEN [out EXCEPT ![Len(out)].v = Append(@, line)]
    ELSE Append(out, [k |-> kind, v |-> <<line>>])

\* one step of a shortest edit script read off the table, from position
\* (s.i, s.j): a common line is kept, and in a changed region the removed
\* lines come before the added ones
EditStep(old, new, T, s) ==
    IF s.i = Len(old) /\ s.j = Len(new) THEN s
    ELSE IF s.i < Len(old) /\ s.j < Len(new) /\ old[s.i + 1] = new[s.j + 1]
    THEN [i |-> s.i + 1, j |-> s.j + 1, out |-> PushEdit(s.out, "same", old[s.i + 1])]
    ELSE IF s.j = Len(new) \/ (s.i < Len(old) /\ T[s.i + 2][s.j + 1] >= T[s.i + 1][s.j + 2])
    THEN [i |-> s.i + 1, j |-> s.j, out |-> PushEdit(s.out, "removed", old[s.i + 1])]
    ELSE [i |-> s.i, j |-> s.j + 1, out |-> PushEdit(s.out, "added", new[s.j + 1])]

\* n steps, one after the other
RECURSIVE EditSteps(_, _, _, _, _)
EditSteps(old, new, T, s, n) ==
    IF n = 0 \/ (s.i = Len(old) /\ s.j = Len(new)) THEN s
    ELSE IF n = 1 THEN EditStep(old, new, T, s)
    ELSE EditSteps(old, new, T, EditSteps(old, new, T, s, n \div 2), n - (n \div 2))

\* Diff.diffLines(originalContent, update.content) (line 287): the parts
\* (hunks) of the diff, each "same", "removed" or "added" with its lines
DiffLines(old, new) ==
    LET zeros == SubSeq([jj \in 1..(Len(new) + 1) |-> 0], 1, Len(new) + 1)
        T == LcsRows(old, new, <<zeros>>, Len(old))
    IN EditSteps(old, new, T, [i |-> 0, j |-> 0, out |-> <<>>], Len(old) + Len(new)).out

\* the text of a lexeme
LexText(t) == IF t.k = "ws" THEN " " ELSE IF t.v = <<>> THEN t.k ELSE t.v[1]

\* part.value.replace(/^/gm, sign): every line of the part behind the sign
RECURSIVE Prefixed(_, _)
Prefixed(sign, lines) ==
    IF lines = <<>> THEN ""
    ELSE sign \o LexText(Head(lines)) \o "/" \o Prefixed(sign, Tail(lines))

\* the hunks rendered for one file before the loop stops rendering
HunkLimit == 50

\* a rendering that writes the unchanged parts as hunks too
RenderPartEvery(part, path, s) ==
    IF s.count > HunkLimit THEN s
    ELSE [count |-> s.count + 1,
          out |-> Append(s.out, Line(IF part.k = "removed" THEN "removed" ELSE "added", path,
                                     Prefixed(IF part.k = "removed" THEN "- " ELSE "+ ", part.v)))]

\* changes.forEach((part) => { if (count > 50) return; ... count++ })
\* (lines 288-293) for one part: s holds the count and the lines written
RenderPart(part, path, s) ==
    IF s.count > HunkLimit THEN s
    ELSE IF part.k = "added"
    THEN [count |-> s.count + 1,
          out |-> Append(s.out, Line("added", path, Prefixed("+ ", part.v)))]
    ELSE IF part.k = "removed"
    THEN [count |-> s.count + 1,
          out |-> Append(s.out, Line("removed", path, Prefixed("- ", part.v)))]
    ELSE s

\* the parts changes[lo..hi], one after the other
RECURSIVE RenderParts(_, _, _, _, _)
RenderParts(changes, path, s, lo, hi) ==
    IF lo > hi \/ s.count > HunkLimit THEN s
    ELSE IF lo = hi THEN RenderPart(changes[lo], path, s)
    ELSE LET mid == (lo + hi) \div 2
         IN RenderParts(changes, path, RenderParts(changes, path, s, lo, mid), mid + 1, hi)

\* lines 287-295: the rendered hunks, the truncation marker, the empty line
DiffPreview(originalContent, u) ==
    LET changes == DiffLines(originalContent, u.content)
        r == RenderParts(changes, u.path, [count |-> 0, out |-> <<>>], 1, Len(changes))
    IN r.out
       \o (IF r.count > HunkLimit THEN <<Line("truncated", u.path, "")>> ELSE <<>>)
       \o <<Line("enddiff", u.path, "")>>

(***************************************************************************)
(* Inputs: the working trees and clipboard texts a run may start from.     *)
(***************************************************************************)
OldText == <<Ch("o")>>
StaleText == <<Ch("p")>>

Tree(a, abak, d, db, cfg) ==
    [q \in Nodes |->
        CASE q = <<>> -> Dir
          [] q = PathA -> a
          [] q = Bak(PathA) -> abak
          [] q = PathD -> d
          [] q = PathDB -> db
          [] q = CONFIG_FILE -> cfg
          [] OTHER -> None]

InitialTrees ==
    {Tree(a, abak, dd[1], dd[2], cfg) :
        a \in {None, File(OldText)},
        abak \in {None, File(StaleText)},
        dd \in {<<None, None>>, <<File(OldText), None>>, <<Dir, File(OldText)>>},
        cfg \in {None, File(CfgText(TRUE))}}

WriteTag(p, body) == <<Open(p)>> \o body \o <<Close>>
Bodies == {<<Ch("x")>>, <<Ws, Ch("y"), Ws>>}
Units ==
    {WriteTag(PathA, b) : b \in Bodies}
    \cup {WriteTag(PathDB, <<Ch("x")>>)}
    \cup {<<Del(p)>> : p \in DeletePaths}

RECURSIVE UnitTexts(_)
UnitTexts(n) ==
    IF n = 0 THEN {<<>>}
    ELSE UnitTexts(n - 1) \cup {s \o u : s \in UnitTexts(n - 1), u \in Units}

Clipboards == UnitTexts(MaxTags)

(***************************************************************************)
(* The apply action (lines 260-325).                                       *)
(***************************************************************************)
Init ==
    /\ fs \in InitialTrees
    /\ clipboard \in Clipboards
    /\ pc = "Idle"
    /\ ended = FALSE
    /\ backupsEnabled = FALSE
    /\ content = <<>>
    /\ updates = <<>>
    /\ idx = 0
    /\ stage = 0
    /\ proceed = "none"
    /\ console = <<>>
    /\ iolog = <<>>
    /\ fs0 = fs
    /\ pre = fs
    /\ selectedFiles = <<>>
    /\ output = <<>>
    /\ skippedCount = 0

\* lines 261-264, clipboardy.read() resolves
ReadClipboard ==
    /\ pc = "Idle" /\ ~ended
    /\ backupsEnabled' = GetBackupStatus(fs)
    /\ content' = clipboard
    /\ console' = Append(console, Line("reading", <<>>, ""))
    /\ pc' = "Extracting"
    /\ UNCHANGED <<fs, clipboard, ended, updates, idx, stage, proceed, iolog, fs0, pre>>
    /\ UNCHANGED <<selectedFiles, output, skippedCount>>

\* lines 261-264, clipboardy.read() rejects
ReadClipboardFails ==
    /\ pc = "Idle" /\ ~ended
    /\ backupsEnabled' = GetBackupStatus(fs)
    /\ console' = console \o <<Line("reading", <<>>, ""), Line("noclipboard", <<>>, "")>>
    /\ ended' = TRUE
    /\ UNCHANGED <<fs, clipboard, pc, content, updates, idx, stage, proceed, iolog, fs0, pre>>
    /\ UNCHANGED <<selectedFiles, output, skippedCount>>

\* lines 266-277
Extract ==
    /\ pc = "Extracting"
    /\ updates' = ExtractUpdates(content)
    /\ IF Len(updates') = 0
       THEN /\ console' = Append(console, Line("notags", <<>>, ""))
            /\ pc' = "Idle"
            /\ ended' = TRUE
            /\ idx' = idx
       ELSE /\ console' = Append(console, Line("found", <<>>, ""))
            /\ pc' = "Previewing"
            /\ ended' = ended
            /\ idx' = 1
    /\ UNCHANGED <<fs, clipboard, backupsEnabled, content, stage, proceed, iolog, fs0, pre>>
    /\ UNCHANGED <<selectedFiles, output, skippedCount>>

\* what lines 280-298 print for one update
PreviewLines(f, u) ==
    LET r == ReadFile(f, Resolve(u.path))
    IN <<Line("path", u.path, "")>>
       \o (IF u.type = "delete" THEN <<Line("delete", u.path, "")>>
           ELSE (IF r.ok THEN <<>> ELSE <<Line("newfile", u.path, "")>>)
                \o (IF r.c # <<>> THEN DiffPreview(r.c, u) ELSE <<>>))
       \o <<Line("rule", <<>>, "")>>

\* one iteration of the preview loop (lines 278-299)
Preview ==
    /\ pc = "Previewing" /\ idx <= Len(updates)
    /\ console' = console \o PreviewLines(fs, updates[idx])
    /\ idx' = idx + 1
    /\ UNCHANGED <<fs, clipboard, pc, ended, backupsEnabled, content, updates, stage,
                   proceed, iolog, fs0, pre>>
    /\ UNCHANGED <<selectedFiles, output, skippedCount>>

\* the preview loop is over: confirm() is called (line 302)
Prompt ==
    /\ pc = "Previewing" /\ idx > Len(updates)
    /\ pc' = "AwaitingConfirmation"
    /\ UNCHANGED <<fs, clipboard, ended, backupsEnabled, content, updates, idx, stage,
                   proceed, console, iolog, fs0, pre>>
    /\ UNCHANGED <<selectedFiles, output, skippedCount>>

\* the operator answers, or the prompt throws (lines 302-305)
Confirm ==
    /\ pc = "AwaitingConfirmation"
    /\ \E answer \in {"yes", "no", "throw"} :
        LET d == Decide(answer, console)
        IN /\ proceed' = answer
           /\ pc' = d.pc
           /\ console' = d.console
           /\ ended' = (d.pc # "Applying")
           /\ idx' = IF d.pc = "Applying" THEN 1 ELSE idx
           /\ stage' = IF d.pc = "Applying" THEN 1 ELSE stage
    /\ pre' = fs
    /\ UNCHANGED <<fs, clipboard, backupsEnabled, content, updates, iolog, fs0>>
    /\ UNCHANGED <<selectedFiles, output, skippedCount>>

InLoop == pc = "Applying" /\ idx <= Len(updates)
Cur == updates[idx]
CurStage == Stages(Cur)[stage]
Target == Resolve(Cur.path)

\* the statement at `stage` completed without throwing
Advance ==
    /\ pre' = IF stage = 1 THEN fs ELSE pre
    /\ IF stage < Len(Stages(Cur))
       THEN stage' = stage + 1 /\ idx' = idx
       ELSE stage' = 1 /\ idx' = idx + 1

\* the statement at `stage` threw into the catch of line 322
Throw(err) ==
    LET c == Caught(idx, console, Cur.path, err)
    IN /\ pc' = c.pc
       /\ idx' = c.idx
       /\ console' = c.console
       /\ stage' = 1
       /\ pre' = IF stage = 1 THEN fs ELSE pre
       /\ ended' = (c.pc # "Applying")

\* a policy looked up again at every directive
BackupsReread == GetBackupStatus(fs)

\* if (backupsEnabled) (lines 310, 316): the constant of line 261
BackupsOn == backupsEnabled

\* a toggle that adds the field to the record the file holds
SetBackupStatusMerged(f, enabled, fault) ==
    LET p == Resolve(CONFIG_FILE)
        old == SelectSeq(f[p].c, LAMBDA x : x.k # "ws")
        field == <<JStr("backup"), Colon, JLit(IF enabled THEN "true" ELSE "false")>>
    IN IF f[p].t = "file" /\ JsonParse(old).ok /\ JsonParse(old).k = "object" /\ Len(old) > 2
       THEN WriteFile(f, p, SubSeq(old, 1, Len(old) - 1) \o <<Comma>> \o field \o <<RBrace>>,
                      fault)
       ELSE WriteFile(f, p, CfgText(enabled), fault)

\* setBackupStatus (lines 72-75): the whole record is written
SetBackupStatus(f, enabled, fault) ==
    WriteFile(f, Resolve(CONFIG_FILE), CfgText(enabled), fault)

\* one run of `aidx backup` that saves a preference (lines 161-166); a
\* rejected writeFile leaves the action as an uncaught error
SavePreference(enabled) ==
    \E fault \in WriteFaults :
        LET r == SetBackupStatus(fs, enabled, fault)
        IN /\ fs' = r.fs
           /\ iolog' = Append(iolog, IoCall(0, "writeFile", Resolve(CONFIG_FILE), r.err))
           /\ console' = Append(console,
                                IF r.err # "" THEN Line("uncaught", <<>>, r.err)
                                ELSE IF enabled THEN Line("enabled", <<>>, "")
                                ELSE Line("disabled", <<>>, ""))

\* aidx backup --on (lines 161-163); --on wins over --off
BackupOn ==
    /\ pc = "Idle" /\ ~ended /\ Len(console) < MaxCommands
    /\ SavePreference(TRUE)
    /\ UNCHANGED <<clipboard, pc, ended, backupsEnabled, content, updates, idx, stage,
                   proceed, fs0, pre>>
    /\ UNCHANGED <<selectedFiles, output, skippedCount>>

\* aidx backup --off (lines 164-166)
BackupOff ==
    /\ pc = "Idle" /\ ~ended /\ Len(console) < MaxCommands
    /\ SavePreference(FALSE)
    /\ UNCHANGED <<clipboard, pc, ended, backupsEnabled, content, updates, idx, stage,
                   proceed, fs0, pre>>
    /\ UNCHANGED <<selectedFiles, output, skippedCount>>

\* aidx backup (lines 167-170)
BackupShow ==
    /\ pc = "Idle" /\ ~ended /\ Len(console) < MaxCommands
    /\ \E fault \in Faults :
        LET status == GetBackupStatusCall(fs, fault)
        IN console' = Append(console,
                             IF status.thrown THEN Line("uncaught", <<>>, "getBackupStatus")
                             ELSE Line("status", <<>>, IF status.v THEN "ENABLED" ELSE "DISABLED"))
    /\ UNCHANGED <<fs, clipboard, pc, ended, backupsEnabled, content, updates, idx, stage,
                   proceed, iolog, fs0, pre>>
    /\ UNCHANGED <<selectedFiles, output, skippedCount>>

\* if (backupsEnabled) is false (lines 310, 316)
SkipBackup ==
    /\ InLoop /\ CurStage = "backup" /\ ~BackupsOn
    /\ Advance
    /\ UNCHANGED <<fs, clipboard, pc, ended, backupsEnabled, content, updates, proceed,
                   console, iolog, fs0>>
    /\ UNCHANGED <<selectedFiles, output, skippedCount>>

\* try { await fs.copyFile(targetPath, `${targetPath}.bak`) } catch(e) {}
\* (lines 311, 317)
Backup ==
    /\ InLoop /\ CurStage = "backup" /\ BackupsOn
    /\ \E fault \in Faults :
        LET r == CopyFile(fs, Target, Bak(Target), fault)
        IN /\ fs' = IF CopyErrorEscapes(r.err) THEN TreeAfterCatch(r.fs, fs0) ELSE r.fs
           /\ iolog' = Append(iolog, IoCall(idx, "copyFile", Target, r.err))
           /\ IF CopyErrorEscapes(r.err)
              THEN Throw(r.err)
              ELSE /\ console' = IF r.err = "" /\ Cur.type = "write"
                                 THEN Append(console, Line("backup", Cur.path, ""))
                                 ELSE console
                   /\ Advance
                   /\ UNCHANGED <<pc, ended>>
    /\ UNCHANGED <<clipboard, backupsEnabled, content, updates, proceed, fs0>>
    /\ UNCHANGED <<selectedFiles, output, skippedCount>>

\* try { await fs.unlink(targetPath); console.log(Deleted) } catch(e) {} (line 313)
UnlinkTarget ==
    /\ InLoop /\ CurStage = "unlink"
    /\ \E fault \in Faults :
        LET r == Unlink(fs, Target, fault)
        IN /\ fs' = r.fs
           /\ iolog' = Append(iolog, IoCall(idx, "unlink", Target, r.err))
           /\ console' = IF r.err = ""
                         THEN Append(console, Line("deleted", Cur.path, ""))
                         ELSE console
           /\ Advance
    /\ UNCHANGED <<clipboard, pc, ended, backupsEnabled, content, updates, proceed, fs0>>
    /\ UNCHANGED <<selectedFiles, output, skippedCount>>

\* await fs.mkdir(path.dirname(targetPath), { recursive: true }) (line 315)
MakeParents ==
    /\ InLoop /\ CurStage = "mkdir"
    /\ \E fault \in Faults :
        LET r == Mkdir(fs, Dirname(Target), fault)
        IN /\ fs' = IF r.err = "" THEN r.fs ELSE TreeAfterCatch(r.fs, fs0)
           /\ iolog' = Append(iolog, IoCall(idx, "mkdir", Dirname(Target), r.err))
           /\ IF r.err = ""
              THEN Advance /\ UNCHANGED <<pc, ended, console>>
              ELSE Throw(r.err)
    /\ UNCHANGED <<clipboard, backupsEnabled, content, updates, proceed, fs0>>
    /\ UNCHANGED <<selectedFiles, output, skippedCount>>

\* await fs.writeFile(targetPath, update.content || ''); console.log(Wrote)
\* (lines 319-320)
WriteTarget ==
    /\ InLoop /\ CurStage = "write"
    /\ \E fault \in WriteFaults :
        LET data == IF Cur.content = <<>> THEN <<>> ELSE Cur.content
            r == WriteFile(fs, Target, data, fault)
        IN /\ fs' = IF r.err = "" THEN r.fs ELSE TreeAfterCatch(r.fs, fs0)
           /\ iolog' = Append(iolog, IoCall(idx, "writeFile", Target, r.err))
           /\ IF r.err = ""
              THEN /\ console' = Append(console, Line("wrote", Cur.path, ""))
                   /\ Advance
                   /\ UNCHANGED <<pc, ended>>
              ELSE Throw(r.err)
    /\ UNCHANGED <<clipboard, backupsEnabled, content, updates, proceed, fs0>>
    /\ UNCHANGED <<selectedFiles, output, skippedCount>>

\* console.log('Done.') (line 324)
Finish ==
    /\ pc = "Applying" /\ idx > Len(updates)
    /\ console' = Append(console, Line("done", <<>>, ""))
    /\ pc' = "Done"
    /\ ended' = TRUE
    /\ UNCHANGED <<fs, clipboard, backupsEnabled, content, updates, idx, stage, proceed,
                   iolog, fs0, pre>>
    /\ UNCHANGED <<selectedFiles, output, skippedCount>>

(***************************************************************************)
(* The `copy` command (lines 173-254).  A content may hold a secret (a     *)
(* match of SECRET_REGEX), a NUL byte, and blobs of n bytes of plain text. *)
(***************************************************************************)
MAX_FILE_SIZE == 1572864

Secret == Tok("secret", <<>>)
Nul == Tok("nul", <<>>)
Blob(n) == Tok("blob", <<n>>)

SYSTEM_HEADER == Tok("header", <<>>)
XML_SCHEMA_INSTRUCTION == Tok("schema", <<>>)
FileHeader(file) == Tok("filehdr", file)

\* statSync(file).size
RECURSIVE Size(_)
Size(c) ==
    IF c = <<>> THEN 0
    ELSE (IF Head(c).k = "blob" THEN Head(c).v[1] ELSE 1) + Size(Tail(c))

\* await isBinaryFile(file)
IsBinaryFile(c) == \E i \in DOMAIN c : c[i].k = "nul"

\* String.prototype.includes
Includes(s, sub) ==
    \E i \in 1..(Len(s) - Len(sub) + 1) : SubSeq(s, i, i + Len(sub) - 1) = sub

\* SECRET_REGEX.test(content)
SecretRegexTest(c) == \E i \in DOMAIN c : c[i].k = "secret"

\* a screen that looks at the content only
HasSecretsInContent(file, c) == SecretRegexTest(c)

\* file.includes('.env') || SECRET_REGEX.test(content) (line 231)
HasSecrets(file, c) ==
    (\E i \in DOMAIN file : Includes(file[i], ".env")) \/ SecretRegexTest(c)

\* the order in which fast-glob lists the paths that may hold files
GlobOrder == <<CONFIG_FILE, PathA, PathEnv, PathDB>>

\* glob(['**/*'], { onlyFiles: true, dot: true }) (lines 180-195)
Glob(f) == SelectSeq(GlobOrder, LAMBDA p : f[p].t = "file")

Digits == <<"0", "1", "2", "3", "4">>

\* the body of the read loop for one file (lines 215-237): the text added to
\* output, the increment of skippedCount, the line printed
ReadOne(f, file, fault) ==
    LET c == f[file].c
    IN IF f[file].t # "file"
       THEN [out |-> <<>>, skipped |-> 0, line |-> Line("readerror", file, "")]
       ELSE IF Size(c) > MAX_FILE_SIZE
       THEN [out |-> <<>>, skipped |-> 1, line |-> Line("large", file, "")]
       ELSE IF fault # ""
       THEN [out |-> <<>>, skipped |-> 0, line |-> Line("readerror", file, "")]
       ELSE IF IsBinaryFile(c)
       THEN [out |-> <<>>, skipped |-> 1, line |-> Line("binary", file, "")]
       ELSE IF HasSecrets(file, c)
       THEN [out |-> <<>>, skipped |-> 1, line |-> Line("secrets", file, "")]
       ELSE [out |-> <<FileHeader(file), Fence>> \o c \o <<Fence>>, skipped |-> 0,
             line |-> Line("none", file, "")]

\* lines 178-197: the listing of the directory
ScanFiles ==
    /\ pc = "Idle" /\ ~ended
    /\ IF Glob(fs) = <<>>
       THEN /\ console' = console \o <<Line("scanning", <<>>, ""), Line("nofiles", <<>>, "")>>
            /\ ended' = TRUE
            /\ pc' = pc
       ELSE /\ console' = Append(console, Line("scanning", <<>>, ""))
            /\ pc' = "Selecting"
            /\ ended' = ended
    /\ UNCHANGED <<fs, clipboard, backupsEnabled, content, updates, idx, stage, proceed,
                   iolog, fs0, pre, selectedFiles, output, skippedCount>>

\* lines 199-213: the operator ticks files of the listing, or leaves the prompt
SelectFiles ==
    /\ pc = "Selecting" /\ ~ended
    /\ \/ /\ console' = Append(console, Line("cancelled", <<>>, ""))
          /\ ended' = TRUE
          /\ UNCHANGED <<pc, idx, selectedFiles, output, skippedCount>>
       \/ \E ticked \in SUBSET {Glob(fs)[i] : i \in DOMAIN Glob(fs)} :
            LET chosen == SelectSeq(Glob(fs), LAMBDA p : p \in ticked)
            IN IF chosen = <<>>
               THEN /\ console' = Append(console, Line("noneselected", <<>>, ""))
                    /\ ended' = TRUE
                    /\ selectedFiles' = chosen
                    /\ UNCHANGED <<pc, idx, output, skippedCount>>
               ELSE /\ console' = Append(console, Line("readingfiles", <<>>, ""))
                    /\ selectedFiles' = chosen
                    /\ output' = <<SYSTEM_HEADER>>
                    /\ skippedCount' = 0
                    /\ idx' = 1
                    /\ pc' = "Reading"
                    /\ ended' = ended
    /\ UNCHANGED <<fs, clipboard, backupsEnabled, content, updates, stage, proceed, iolog,
                   fs0, pre>>

\* one iteration of the read loop (lines 214-238)
ReadSelected ==
    /\ pc = "Reading" /\ idx <= Len(selectedFiles)
    /\ \E fault \in Faults :
        LET r == ReadOne(fs, selectedFiles[idx], fault)
        IN /\ output' = output \o r.out
           /\ skippedCount' = skippedCount + r.skipped
           /\ console' = IF r.line.k = "none" THEN console ELSE Append(console, r.line)
    /\ idx' = idx + 1
    /\ UNCHANGED <<fs, clipboard, pc, ended, backupsEnabled, content, updates, stage,
                   proceed, iolog, fs0, pre, selectedFiles>>

\* lines 239-253: the payload is closed and written to the clipboard
WriteClipboard ==
    /\ pc = "Reading" /\ idx > Len(selectedFiles)
    /\ output' = Append(output, XML_SCHEMA_INSTRUCTION)
    /\ \/ /\ clipboard' = output'
          /\ console' = Append(console, Line("copied", <<>>,
                                             Digits[Len(selectedFiles) - skippedCount + 1]))
          /\ pc' = "Copied"
       \/ /\ clipboard' = clipboard
          /\ console' = Append(console, Line("clipboardfailed", <<>>, ""))
          /\ pc' = "CopyFailed"
    /\ ended' = TRUE
    /\ UNCHANGED <<fs, backupsEnabled, content, updates, idx, stage, proceed, iolog, fs0,
                   pre, selectedFiles, skippedCount>>

Next ==
    \/ ReadClipboard
    \/ ReadClipboardFails
    \/ Extract
    \/ Preview
    \/ Prompt
    \/ Confirm
    \/ SkipBackup
    \/ Backup
    \/ UnlinkTarget
    \/ MakeParents
    \/ WriteTarget
    \/ Finish

Spec == Init /\ [][Next]_vars

\* the apply loop and the summary (lines 306-324): every await of the loop
\* settles, so a step of it that can be taken is taken
ApplyLoop == SkipBackup \/ Backup \/ UnlinkTarget \/ MakeParents \/ WriteTarget \/ Finish

FairSpec == Spec /\ WF_vars(ApplyLoop)

(***************************************************************************)
(* Extraction alone, over every text of up to MaxTextLen lexemes.          *)
(***************************************************************************)
Alphabet ==
    {Open(PathA), Open(PathDB), Close, Del(PathA), Del(PathD), Fence, Ws, Ch("x")}

Texts == UNION {[1..n -> Alphabet] : n \in 0..MaxTextLen}

InitExtract ==
    /\ fs = Tree(None, None, None, None, None)
    /\ clipboard \in Texts
    /\ pc = "Idle"
    /\ ended = FALSE
    /\ backupsEnabled = FALSE
    /\ content = <<>>
    /\ updates = <<>>
    /\ idx = 0
    /\ stage = 0
    /\ proceed = "none"
    /\ console = <<>>
    /\ iolog = <<>>
    /\ fs0 = fs
    /\ pre = fs
    /\ selectedFiles = <<>>
    /\ output = <<>>
    /\ skippedCount = 0

NextExtract == ReadClipboard \/ Extract

ExtractSpec == InitExtract /\ [][NextExtract]_vars

(***************************************************************************)
(* Runs whose directives reach the persisted preference itself.            *)
(***************************************************************************)
PolicyTrees ==
    {Tree(a, None, None, None, cfg) :
        a \in {None, File(OldText)},
        cfg \in {None, File(CfgText(TRUE)), File(CfgText(FALSE))}}

PolicyUnits ==
    {WriteTag(CONFIG_FILE, CfgText(b)) : b \in BOOLEAN}
    \cup {<<Del(CONFIG_FILE)>>, WriteTag(PathA, <<Ch("x")>>), <<Del(PathA)>>}

RECURSIVE PolicyTexts(_)
PolicyTexts(n) ==
    IF n = 0 THEN {<<>>}
    ELSE PolicyTexts(n - 1) \cup {s \o u : s \in PolicyTexts(n - 1), u \in PolicyUnits}

InitPolicy ==
    /\ fs \in PolicyTrees
    /\ clipboard \in PolicyTexts(MaxTags)
    /\ pc = "Idle"
    /\ ended = FALSE
    /\ backupsEnabled = FALSE
    /\ content = <<>>
    /\ updates = <<>>
    /\ idx = 0
    /\ stage = 0
    /\ proceed = "none"
    /\ console = <<>>
    /\ iolog = <<>>
    /\ fs0 = fs
    /\ pre = fs
    /\ selectedFiles = <<>>
    /\ output = <<>>
    /\ skippedCount = 0

PolicySpec == InitPolicy /\ [][Next]_vars

(***************************************************************************)
(* Whole runs on every text of up to MaxInputLen lexemes, closed or not.   *)
(***************************************************************************)
InputTrees ==
    {Tree(a, None, None, None, cfg) :
        a \in {None, File(OldText)},
        cfg \in {None, File(CfgText(TRUE))}}

\* path="" names the working directory itself
PathEmpty == <<>>

InputAlphabet ==
    {Open(PathA), Open(PathEmpty), Close, Del(PathA), Del(PathEmpty), Fence, Ws, Ch("x")}

InputTexts == UNION {[1..n -> InputAlphabet] : n \in 0..MaxInputLen}

InitInput ==
    /\ fs \in InputTrees
    /\ clipboard \in InputTexts
    /\ pc = "Idle"
    /\ ended = FALSE
    /\ backupsEnabled = FALSE
    /\ content = <<>>
    /\ updates = <<>>
    /\ idx = 0
    /\ stage = 0
    /\ proceed = "none"
    /\ console = <<>>
    /\ iolog = <<>>
    /\ fs0 = fs
    /\ pre = fs
    /\ selectedFiles = <<>>
    /\ output = <<>>
    /\ skippedCount = 0

InputSpec == InitInput /\ [][Next]_vars

(***************************************************************************)
(* The preview alone, on files and bodies of many lines: `r` lines of the  *)
(* file are replaced and `d` lines are removed, with a common line behind  *)
(* each of them.                                                           *)
(***************************************************************************)
RECURSIVE Repeat(_, _)
Repeat(s, n) == IF n = 0 THEN <<>> ELSE s \o Repeat(s, n - 1)

OldLines(r, d) == Repeat(<<Ch("a"), Ch("c")>>, r + d)
NewLines(r, d) == Repeat(<<Ch("b"), Ch("c")>>, r) \o Repeat(<<Ch("c")>>, d)

InitPreview ==
    /\ \E r \in 0..MaxReplaced, d \in 0..1 :
        /\ fs \in {Tree(a, None, None, None, None) :
                        a \in {None, Dir, File(<<>>), File(OldLines(r, d)),
                                File(NewLines(r, d))}}
        /\ clipboard = WriteTag(PathA, NewLines(r, d))
    /\ pc = "Idle"
    /\ ended = FALSE
    /\ backupsEnabled = FALSE
    /\ content = <<>>
    /\ updates = <<>>
    /\ idx = 0
    /\ stage = 0
    /\ proceed = "none"
    /\ console = <<>>
    /\ iolog = <<>>
    /\ fs0 = fs
    /\ pre = fs
    /\ selectedFiles = <<>>
    /\ output = <<>>
    /\ skippedCount = 0

NextPreview == ReadClipboard \/ Extract \/ Preview \/ Prompt

PreviewSpec == InitPreview /\ [][NextPreview]_vars

(***************************************************************************)
(* Runs whose directives meet on a path, on a backup sibling or on a       *)
(* parent directory.                                                       *)
(***************************************************************************)
OrderTrees ==
    {Tree(a, None, dd[1], dd[2], cfg) :
        a \in {None, File(OldText)},
        dd \in {<<None, None>>, <<File(OldText), None>>, <<Dir, File(StaleText)>>},
        cfg \in {None, File(CfgText(TRUE))}}

OrderUnits ==
    {WriteTag(PathA, <<Ch("x")>>), WriteTag(PathA, <<Ch("y")>>),
     WriteTag(Bak(PathA), <<Ch("z")>>), WriteTag(PathDB, <<Ch("x")>>),
     <<Del(PathA)>>, <<Del(PathD)>>}

RECURSIVE OrderTexts(_)
OrderTexts(n) ==
    IF n = 0 THEN {<<>>}
    ELSE OrderTexts(n - 1) \cup {s \o u : s \in OrderTexts(n - 1), u \in OrderUnits}

InitOrder ==
    /\ fs \in OrderTrees
    /\ clipboard \in OrderTexts(MaxTags)
    /\ pc = "Idle"
    /\ ended = FALSE
    /\ backupsEnabled = FALSE
    /\ content = <<>>
    /\ updates = <<>>
    /\ idx = 0
    /\ stage = 0
    /\ proceed = "none"
    /\ console = <<>>
    /\ iolog = <<>>
    /\ fs0 = fs
    /\ pre = fs
    /\ selectedFiles = <<>>
    /\ output = <<>>
    /\ skippedCount = 0

OrderSpec == InitOrder /\ [][Next]_vars

(***************************************************************************)
(* Runs of the `backup` command, one after the other, over the contents    *)
(* the configuration file may have.                                        *)
(***************************************************************************)
ConfigTexts ==
    {<<>>, <<Ch("x")>>, <<LBrace>>, <<JLit("null")>>, <<JLit("1")>>, <<JStr("yes")>>,
     <<LBrace, RBrace>>, CfgText(TRUE), CfgText(FALSE),
     <<LBrace, JStr("backup"), Colon, JStr("yes"), RBrace>>,
     <<LBrace, JStr("backup"), Colon, JStr(""), RBrace>>,
     <<LBrace, JStr("backup"), Colon, JLit("0"), RBrace>>,
     <<LBrace, JStr("backup"), Colon, JLit("null"), RBrace>>,
     <<LBrace, JStr("backup"), Colon, JLit("true"), Comma, RBrace>>,
     <<LBrace, JStr("other"), Colon, JLit("true"), RBrace>>,
     <<LBrace, JStr("backup"), Colon, JLit("true"), Comma, JStr("other"), Colon, JStr("x"),
       RBrace>>,
     <<LBrace, JStr("backup"), Colon, JLit("false"), Comma, Ws, JStr("backup"), Colon,
       JLit("1"), RBrace>>}

ConfigTrees ==
    {Tree(None, None, None, None, cfg) : cfg \in {None, Dir} \cup {File(t) : t \in ConfigTexts}}

InitConfig ==
    /\ fs \in ConfigTrees
    /\ clipboard = <<>>
    /\ pc = "Idle"
    /\ ended = FALSE
    /\ backupsEnabled = FALSE
    /\ content = <<>>
    /\ updates = <<>>
    /\ idx = 0
    /\ stage = 0
    /\ proceed = "none"
    /\ console = <<>>
    /\ iolog = <<>>
    /\ fs0 = fs
    /\ pre = fs
    /\ selectedFiles = <<>>
    /\ output = <<>>
    /\ skippedCount = 0

NextConfig == BackupOn \/ BackupOff \/ BackupShow

ConfigSpec == InitConfig /\ [][NextConfig]_vars

(***************************************************************************)
(* Runs of the `copy` command over trees with plain, secret, binary and    *)
(* large files.                                                            *)
(***************************************************************************)
CopyContents ==
    {<<>>, <<Ch("x")>>, <<Ch("x"), Secret>>, <<Nul, Ch("x")>>, <<Blob(MAX_FILE_SIZE)>>,
     <<Blob(MAX_FILE_SIZE), Ch("x")>>}

CopyTrees ==
    {[Tree(a, None, dd[1], dd[2], None) EXCEPT ![PathEnv] = env] :
        a \in {None} \cup {File(c) : c \in CopyContents},
        dd \in {<<None, None>>, <<Dir, File(<<Ch("y")>>)>>,
                <<Dir, File(<<Blob(MAX_FILE_SIZE), Secret>>)>>},
        env \in {None, File(<<Ch("z")>>)}}

InitCopy ==
    /\ fs \in CopyTrees
    /\ clipboard = <<>>
    /\ pc = "Idle"
    /\ ended = FALSE
    /\ backupsEnabled = FALSE
    /\ content = <<>>
    /\ updates = <<>>
    /\ idx = 0
    /\ stage = 0
    /\ proceed = "none"
    /\ console = <<>>
    /\ iolog = <<>>
    /\ fs0 = fs
    /\ pre = fs
    /\ selectedFiles = <<>>
    /\ output = <<>>
    /\ skippedCount = 0

NextCopy == ScanFiles \/ SelectFiles \/ ReadSelected \/ WriteClipboard

CopySpec == InitCopy /\ [][NextCopy]_vars

(***************************************************************************)
(* Runs that write below directories that are missing, present, or         *)
(* blocked by a regular file.                                              *)
(***************************************************************************)
ParentTrees ==
    {[Tree(None, None, d, None, cfg) EXCEPT ![PathE] = ef[1], ![PathEF] = ef[2]] :
        d \in {None, Dir, File(OldText)},
        ef \in {<<None, None>>, <<Dir, None>>, <<Dir, Dir>>, <<Dir, File(OldText)>>,
                <<File(OldText), None>>},
        cfg \in {None, File(CfgText(TRUE))}}

ParentUnits ==
    {WriteTag(PathEFG, <<Ch("x")>>), WriteTag(PathDB, <<Ch("y")>>), <<Del(PathD)>>}

RECURSIVE ParentTexts(_)
ParentTexts(n) ==
    IF n = 0 THEN {<<>>}
    ELSE ParentTexts(n - 1) \cup {s \o u : s \in ParentTexts(n - 1), u \in ParentUnits}

InitParents ==
    /\ fs \in ParentTrees
    /\ clipboard \in ParentTexts(MaxTags)
    /\ pc = "Idle"
    /\ ended = FALSE
    /\ backupsEnabled = FALSE
    /\ content = <<>>
    /\ updates = <<>>
    /\ idx = 0
    /\ stage = 0
    /\ proceed = "none"
    /\ console = <<>>
    /\ iolog = <<>>
    /\ fs0 = fs
    /\ pre = fs
    /\ selectedFiles = <<>>
    /\ output = <<>>
    /\ skippedCount = 0

ParentsSpec == InitParents /\ [][Next]_vars

(***************************************************************************)
(* The command run again and again on one path, each run with the tree the *)
(* run before it left.                                                     *)
(***************************************************************************)
RerunTrees ==
    {Tree(a, abak, None, None, cfg) :
        a \in {None, File(OldText)},
        abak \in {None, File(StaleText)},
        cfg \in {None, File(CfgText(TRUE))}}

RerunUnits ==
    {WriteTag(PathA, <<Ch("x")>>), WriteTag(PathA, <<Ch("y")>>), <<Del(PathA)>>}

RECURSIVE RerunTexts(_)
RerunTexts(n) ==
    IF n = 0 THEN {<<>>}
    ELSE RerunTexts(n - 1) \cup {s \o u : s \in RerunTexts(n - 1), u \in RerunUnits}

InitRerun ==
    /\ fs \in RerunTrees
    /\ clipboard \in RerunTexts(MaxTags)
    /\ pc = "Idle"
    /\ ended = FALSE
    /\ backupsEnabled = FALSE
    /\ content = <<>>
    /\ updates = <<>>
    /\ idx = 0
    /\ stage = 0
    /\ proceed = "none"
    /\ console = <<>>
    /\ iolog = <<>>
    /\ fs0 = fs
    /\ pre = fs
    /\ selectedFiles = <<>>
    /\ output = <<>>
    /\ skippedCount = 0

\* the command is started anew (lines 257-260) with another clipboard text, on
\* the tree the run before it left
RunAgain ==
    /\ ended
    /\ clipboard' \in RerunTexts(MaxTags)
    /\ pc' = "Idle"
    /\ ended' = FALSE
    /\ backupsEnabled' = FALSE
    /\ content' = <<>>
    /\ updates' = <<>>
    /\ idx' = 0
    /\ stage' = 0
    /\ proceed' = "none"
    /\ console' = <<>>
    /\ iolog' = <<>>
    /\ fs0' = fs
    /\ pre' = fs
    /\ UNCHANGED <<fs, selectedFiles, output, skippedCount>>

NextRerun == Next \/ RunAgain

RerunSpec == InitRerun /\ [][NextRerun]_vars

(***************************************************************************)
(* Vocabulary of the properties.                                           *)
(***************************************************************************)
Calls(j) == SelectSeq(iolog, LAMBDA e : e.i = j)

\* a result that is no I/O failure: success, or the ENOENT by which the code
\* learns that there is nothing to back up or to delete
Benign(e) == e.err = "" \/ (e.err = "ENOENT" /\ e.op \in {"copyFile", "unlink"})

Failed(j) == \E n \in DOMAIN iolog : iolog[n].i = j /\ ~Benign(iolog[n])
OwnIoOk(j) == \A n \in DOMAIN iolog : iolog[n].i = j => Benign(iolog[n])
Attempted(j) == Calls(j) # <<>>

\* directive j has just been processed: the loop stands before directive j + 1
\* (or before the summary) and `pre` is the tree directive j started from
JustCompleted(j) == pc \in {"Applying", "Done"} /\ idx = j + 1 /\ stage = 1

Printed(l) == \E n \in DOMAIN console : console[n] = l

\* the call `first` on directive j's target succeeded before the call `then`
CalledBefore(j, first, then) ==
    \E m, n \in DOMAIN iolog :
        /\ m < n
        /\ iolog[m] = IoCall(j, first, Resolve(updates[j].path), "")
        /\ iolog[n] = IoCall(j, then, Resolve(updates[j].path), "")

\* the tree a directive is specified to leave behind (spec 4.3, 4.4)
EffectOf(f, u, backups) ==
    LET t == Resolve(u.path)
        kept == IF backups /\ f[t].t = "file" THEN [f EXCEPT ![Bak(t)] = f[t]] ELSE f
    IN IF u.type = "write"
       THEN [q \in DOMAIN f |->
                IF q = t THEN File(u.content)
                ELSE IF q \in Prefixes(Dirname(t)) THEN Dir
                ELSE kept[q]]
       ELSE IF f[t].t = "file" THEN [kept EXCEPT ![t] = None]
       ELSE f

\* the scans have run on the clipboard text
Extracted == pc = "Previewing" \/ (ended /\ Printed(Line("notags", <<>>, "")))

\* every opening write tag of the text is closed before the next one opens
\* (`inside`: an opening tag is waiting for its closing tag)
RECURSIVE WellFormed(_, _)
WellFormed(text, inside) ==
    IF text = <<>> THEN ~inside
    ELSE IF Head(text).k = "open" THEN ~inside /\ WellFormed(Tail(text), TRUE)
    ELSE IF Head(text).k = "close" THEN WellFormed(Tail(text), FALSE)
    ELSE WellFormed(Tail(text), inside)

TagsOf(text, k) == SelectSeq(text, LAMBDA t : t.k = k)

\* the call every directive of its type makes exactly once
FirstCall(u) == IF u.type = "write" THEN "mkdir" ELSE "unlink"

ProcessedOnce ==
    /\ idx = Len(updates) + 1
    /\ \A j \in 1..Len(updates) :
        Len(SelectSeq(iolog, LAMBDA e : e.i = j /\ e.op = FirstCall(updates[j]))) = 1

SummaryOnce ==
    /\ console[Len(console)] = Line("done", <<>>, "")
    /\ Cardinality({n \in DOMAIN console : console[n].k = "done"}) = 1

(***************************************************************************)
(* C1. Before an affirmative confirmation the working tree (files, their   *)
(* contents, backup siblings, directories) equals the tree the run started *)
(* from; so it does at the end of a run the operator declined or whose     *)
(* prompt threw.                                                           *)
(***************************************************************************)
C1_NoMutationBeforeConfirmation == proceed # "yes" => fs = fs0

C1_Witness ==
    /\ pc = "Aborted" /\ ended /\ proceed = "throw"
    /\ \E i \in DOMAIN updates :
        /\ updates[i].type = "write"
        /\ fs[Resolve(updates[i].path)] # File(updates[i].content)

(***************************************************************************)
(* C2. For a text whose write tags are closed and not nested, with N write *)
(* tags and M delete tags in any interleaving, the extracted list is the N *)
(* writes in document order followed by the M deletes in document order.   *)
(***************************************************************************)
C2_WritesThenDeletes ==
    (Extracted /\ WellFormed(clipboard, FALSE)) =>
        LET w == TagsOf(clipboard, "open")
            d == TagsOf(clipboard, "del")
        IN /\ Len(updates) = Len(w) + Len(d)
           /\ \A n \in 1..Len(w) :
                updates[n].type = "write" /\ updates[n].path = w[n].v
           /\ \A n \in 1..Len(d) : updates[Len(w) + n] = DeleteUpdate(d[n].v)

C2_Witness ==
    /\ Extracted /\ WellFormed(clipboard, FALSE)
    /\ \E i, j, k \in DOMAIN clipboard :
        /\ i < j /\ j < k
        /\ clipboard[i].k = "close" /\ clipboard[j].k = "del" /\ clipboard[k].k = "open"
    /\ Len(updates) = 3 /\ updates[3].type = "delete"
    /\ updates[1].path # updates[2].path

(***************************************************************************)
(* C3. Once the apply phase is entered the run reaches Done, whatever I/O  *)
(* failures the directives meet; then every directive has been processed   *)
(* once and the summary line has been printed once, as the last line.      *)
(***************************************************************************)
C3_AlwaysReachesDone ==
    (pc = "Applying") ~> (pc = "Done" /\ ProcessedOnce /\ SummaryOnce)

C3_Witness ==
    /\ pc = "Done" /\ Len(updates) = 2
    /\ Failed(1) /\ Failed(2)

(***************************************************************************)
(* C4. When directive i fails with an I/O error, every later directive j   *)
(* is still attempted, and a later directive whose own I/O succeeds leaves *)
(* the tree exactly as that directive is specified to leave it.            *)
(***************************************************************************)
C4_FailureIsolation ==
    \A i \in 1..Len(updates) : \A j \in (i + 1)..Len(updates) :
        Failed(i) =>
            /\ ended => Attempted(j)
            /\ (JustCompleted(j) /\ OwnIoOk(j)) =>
                    fs = EffectOf(pre, updates[j], backupsEnabled)

C4_Witness ==
    /\ Len(updates) = 2 /\ Failed(1)
    /\ JustCompleted(2) /\ OwnIoOk(2)
    /\ fs # pre

(***************************************************************************)
(* C5. Every I/O failure of a directive's own mutation (creating the       *)
(* parents, writing, removing an existing target) is printed as an error   *)
(* entry with the directive's path and the cause.                          *)
(***************************************************************************)
C5_EveryFailureReported ==
    \A n \in DOMAIN iolog :
        LET e == iolog[n]
        IN (e.op # "copyFile" /\ ~Benign(e) /\ (idx > e.i \/ pc = "Done")) =>
                Printed(Line("error", updates[e.i].path, e.err))

(***************************************************************************)
(* C6. With backups enabled, a Write of content N over a file holding O    *)
(* leaves O in the .bak sibling and N in the target, the copy having been  *)
(* made before the target was written.                                     *)
(***************************************************************************)
C6_BackupThenOverwrite ==
    \A j \in 1..Len(updates) :
        LET t == Resolve(updates[j].path)
        IN (/\ JustCompleted(j) /\ updates[j].type = "write"
            /\ backupsEnabled /\ pre[t].t = "file" /\ OwnIoOk(j)) =>
                /\ fs[Bak(t)] = pre[t]
                /\ fs[t] = File(updates[j].content)
                /\ CalledBefore(j, "copyFile", "writeFile")

C6_Witness ==
    \E j \in 1..Len(updates) :
        LET t == Resolve(updates[j].path)
        IN /\ JustCompleted(j) /\ updates[j].type = "write"
           /\ backupsEnabled /\ pre[t].t = "file" /\ OwnIoOk(j)
           /\ pre[t] # File(updates[j].content)
           /\ fs0[Bak(t)] # pre[t]

(***************************************************************************)
(* C7. After a Write with content C has been applied successfully, reading *)
(* its target yields exactly C, whether the file was created or an         *)
(* existing file with other content was overwritten.                       *)
(***************************************************************************)
C7_WriteThenRead ==
    \A j \in 1..Len(updates) :
        (JustCompleted(j) /\ updates[j].type = "write" /\ OwnIoOk(j)) =>
            ReadFile(fs, Resolve(updates[j].path)) = [ok |-> TRUE, c |-> updates[j].content]

C7_Witness ==
    /\ Len(updates) = 2 /\ JustCompleted(2) /\ OwnIoOk(1) /\ OwnIoOk(2)
    /\ updates[1].type = "write" /\ updates[2].type = "write"
    /\ updates[1].path # updates[2].path
    /\ fs0[Resolve(updates[1].path)].t = "none"
    /\ pre[Resolve(updates[2].path)].t = "file"
    /\ pre[Resolve(updates[2].path)].c # <<>>
    /\ pre[Resolve(updates[2].path)].c # updates[2].content

(***************************************************************************)
(* C8. The same Write (path p, content C) applied twice in succession      *)
(* leaves C in p after the first and after the second apply; with backups  *)
(* enabled the .bak sibling then holds C, what the first apply wrote.      *)
(***************************************************************************)
C8_WriteTwice ==
    \A j \in 1..(Len(updates) - 1) :
        LET t == Resolve(updates[j].path)
            c == updates[j].content
        IN (updates[j].type = "write" /\ updates[j + 1] = updates[j] /\ OwnIoOk(j)) =>
            /\ JustCompleted(j) => fs[t] = File(c)
            /\ (JustCompleted(j + 1) /\ OwnIoOk(j + 1)) =>
                    /\ fs[t] = File(c)
                    /\ backupsEnabled => fs[Bak(t)] = File(c)

C8_Witness ==
    /\ Len(updates) = 2 /\ updates[1].type = "write" /\ updates[2] = updates[1]
    /\ JustCompleted(2) /\ OwnIoOk(1) /\ OwnIoOk(2)
    /\ backupsEnabled
    /\ fs0[Resolve(updates[1].path)].t = "file"
    /\ fs0[Resolve(updates[1].path)] # File(updates[1].content)

(***************************************************************************)
(* C9. A Delete whose target does not exist leaves the tree unchanged and  *)
(* is reported with a skipped outcome.                                     *)
(***************************************************************************)
C9_MissingDeleteSkipped ==
    \A j \in 1..Len(updates) :
        (/\ JustCompleted(j) /\ updates[j].type = "delete"
         /\ pre[Resolve(updates[j].path)].t = "none") =>
            /\ fs = pre
            /\ Printed(Line("skipped", updates[j].path, ""))

(***************************************************************************)
(* C10. A Delete whose target is an existing file, its I/O succeeding,     *)
(* removes the target and reports it; with backups enabled the target was  *)
(* copied to its .bak sibling before the removal, so the sibling holds the *)
(* content the target had.                                                 *)
(***************************************************************************)
C10_DeleteExisting ==
    \A j \in 1..Len(updates) :
        LET t == Resolve(updates[j].path)
        IN (/\ JustCompleted(j) /\ updates[j].type = "delete"
            /\ pre[t].t = "file" /\ OwnIoOk(j)) =>
                /\ fs[t] = None
                /\ Printed(Line("deleted", updates[j].path, ""))
                /\ backupsEnabled =>
                    /\ fs[Bak(t)] = pre[t]
                    /\ CalledBefore(j, "copyFile", "unlink")

C10_Witness ==
    \E j \in 1..Len(updates) :
        LET t == Resolve(updates[j].path)
        IN /\ JustCompleted(j) /\ updates[j].type = "delete"
           /\ pre[t].t = "file" /\ OwnIoOk(j)
           /\ backupsEnabled
           /\ fs0[Bak(t)] # pre[t]

\* the call by which a directive mutates its target
Mutation(u) == IF u.type = "write" THEN "writeFile" ELSE "unlink"

\* iolog[n] is a copy of directive j's existing target that failed
BackupFailedAt(j, n) ==
    /\ iolog[n].i = j /\ iolog[n].op = "copyFile"
    /\ iolog[n].err \notin {"", "ENOENT"}

(***************************************************************************)
(* C11. With backups enabled, when the copy of an existing target to its   *)
(* .bak sibling fails, the directive's mutation (writeFile or unlink) is   *)
(* still called after it and takes effect when it succeeds, and every      *)
(* later directive is attempted.                                           *)
(***************************************************************************)
C11_BackupFailureNonFatal ==
    \A j \in 1..Len(updates) : \A n \in DOMAIN iolog :
        LET t == Resolve(updates[j].path)
            mut == Mutation(updates[j])
        IN (backupsEnabled /\ BackupFailedAt(j, n)) =>
            /\ pc \in {"Applying", "Done"}
            /\ (idx > j \/ pc = "Done") =>
                    \E m \in DOMAIN iolog :
                        m > n /\ iolog[m].i = j /\ iolog[m].op = mut /\ iolog[m].p = t
            /\ (JustCompleted(j) /\ iolog[Len(iolog)] = IoCall(j, mut, t, "")) =>
                    fs[t] = IF updates[j].type = "write"
                            THEN File(updates[j].content) ELSE None
            /\ ended => \A k \in (j + 1)..Len(updates) : Attempted(k)

C11_Witness ==
    /\ backupsEnabled /\ pc = "Done" /\ Len(updates) = 2
    /\ updates[1].type = "write" /\ updates[2].type = "delete"
    /\ \E n \in DOMAIN iolog : BackupFailedAt(1, n)
    /\ \E n \in DOMAIN iolog : BackupFailedAt(2, n)
    /\ fs[Resolve(updates[1].path)] = File(updates[1].content)
    /\ fs0[Resolve(updates[1].path)] # fs[Resolve(updates[1].path)]
    /\ fs0[Resolve(updates[2].path)].t = "file"
    /\ fs[Resolve(updates[2].path)] = None
    /\ updates[1].path # updates[2].path

(***************************************************************************)
(* C12. With backups enabled, a failed copy of an existing target to its   *)
(* .bak sibling is reported: a line naming the affected path is printed    *)
(* for it before the directive's mutation is made.                         *)
(***************************************************************************)
C12_BackupFailureLogged ==
    \A j \in 1..Len(updates) : \A n \in DOMAIN iolog :
        (backupsEnabled /\ BackupFailedAt(j, n)) =>
            \E l \in DOMAIN console :
                /\ console[l].p = updates[j].path
                /\ console[l].k \in {"error", "backupfailed"}

\* directive j came to the statement that decides on its backup
ReachedBackup(j) ==
    /\ pc \in {"Applying", "Done"} /\ idx > j
    /\ (updates[j].type = "write" =>
            \E n \in DOMAIN iolog : iolog[n] = IoCall(j, "mkdir", Dirname(Resolve(updates[j].path)), ""))

CopyCalled(j) == \E n \in DOMAIN iolog : iolog[n].i = j /\ iolog[n].op = "copyFile"

(***************************************************************************)
(* C13. The backup policy is read before extraction and before any         *)
(* mutation, from the tree the run started on, and every directive of the  *)
(* apply phase uses that value: a copy is attempted for a directive exactly*)
(* when the policy was on at the start, also after a directive of the same *)
(* run has overwritten or deleted .aidxrc.json.                            *)
(***************************************************************************)
C13_PolicyReadOnce ==
    /\ (pc # "Idle" \/ ended) => backupsEnabled = GetBackupStatus(fs0)
    /\ \A j \in 1..Len(updates) :
            ReachedBackup(j) => (CopyCalled(j) <=> GetBackupStatus(fs0))

C13_Witness ==
    /\ pc = "Done" /\ Len(updates) = 2
    /\ Resolve(updates[1].path) = CONFIG_FILE
    /\ OwnIoOk(1) /\ OwnIoOk(2)
    /\ GetBackupStatus(fs) # GetBackupStatus(fs0)
    /\ updates[2] = WriteUpdate(PathA, <<Ch("x")>>)
    /\ fs0[PathA].t = "file"
    /\ ReachedBackup(2)

\* the lines of the preview (lines 277-298)
PreviewKinds ==
    {"found", "path", "delete", "newfile", "added", "removed", "truncated", "enddiff", "rule"}

\* the text holds an opening write tag and neither a closing tag behind it
\* nor a delete tag
OnlyUnclosed(text) ==
    /\ \E i \in DOMAIN text : text[i].k = "open"
    /\ \A i \in DOMAIN text : text[i].k # "del"
    /\ \A i, j \in DOMAIN text : (text[i].k = "open" /\ text[j].k = "close") => j < i

(***************************************************************************)
(* C14. When extraction yields no directive (as it does for a text whose   *)
(* only tag is an opening file tag without a closing tag behind it) or the *)
(* clipboard cannot be read, the run reports it and ends: no preview line  *)
(* is printed, no confirmation is requested and no filesystem call is made.*)
(***************************************************************************)
C14_NothingToApply ==
    /\ OnlyUnclosed(clipboard) => (pc \in {"Idle", "Extracting"} /\ Len(updates) = 0)
    /\ pc \notin {"Idle", "Extracting"} => Len(updates) > 0
    /\ (ended /\ Len(updates) = 0) =>
            /\ pc = "Idle"
            /\ console[Len(console)].k \in {"notags", "noclipboard"}
            /\ \A l \in DOMAIN console : console[l].k \notin PreviewKinds
            /\ proceed = "none"
            /\ iolog = <<>> /\ fs = fs0

C14_Witness ==
    /\ ended /\ Len(updates) = 0 /\ OnlyUnclosed(clipboard)
    /\ Printed(Line("notags", <<>>, ""))
    /\ \E i \in DOMAIN clipboard : clipboard[i].k = "ch"
    /\ fs0[PathA].t = "file"

\* the transitions of spec 4.4
Transitions ==
    {<<"Idle", "Extracting">>, <<"Extracting", "Idle">>, <<"Extracting", "Previewing">>,
     <<"Previewing", "AwaitingConfirmation">>, <<"AwaitingConfirmation", "Aborted">>,
     <<"AwaitingConfirmation", "Applying">>, <<"Applying", "Done">>}

(***************************************************************************)
(* C15. Every change of phase of an invocation is one of Idle ->           *)
(* Extracting -> Idle or Previewing -> AwaitingConfirmation -> Aborted or  *)
(* Applying -> Done; Applying is entered only from AwaitingConfirmation on *)
(* the answer yes; a run ends in Idle, Aborted or Done, Aborted and Done   *)
(* end it, and an ended run takes no further step.                         *)
(***************************************************************************)
C15_StateMachine ==
    [][/\ ~ended
       /\ pc' # pc => <<pc, pc'>> \in Transitions
       /\ (pc' = "Applying" /\ pc # "Applying") =>
                (pc = "AwaitingConfirmation" /\ proceed' = "yes")
       /\ ended' => pc' \in {"Idle", "Aborted", "Done"}
       /\ pc' \in {"Aborted", "Done"} => ended'
       /\ (pc = "Extracting" /\ pc' = "Idle") => (ended' /\ Len(updates') = 0)]_vars

C15_Witness ==
    /\ pc = "Done" /\ ended /\ proceed = "yes"
    /\ Len(updates) = 2 /\ OwnIoOk(1) /\ OwnIoOk(2)
    /\ updates[1].type = "delete" \/ updates[2].type = "delete"

\* the number of added and removed parts of a diff
ChangedParts(changes) == Len(SelectSeq(changes, LAMBDA part : part.k # "same"))

\* the hunks the preview has rendered for a path
RenderedHunks(p) ==
    Cardinality({l \in DOMAIN console : console[l].k \in {"added", "removed"} /\ console[l].p = p})

\* the preview is over and directive j is the only one on its path
Previewed(j) ==
    /\ pc = "AwaitingConfirmation" /\ j \in DOMAIN updates
    /\ \A i \in DOMAIN updates : updates[i].path = updates[j].path => i = j

(***************************************************************************)
(* C16. The preview of one file renders at most 50 added or removed hunks; *)
(* the truncation marker is printed exactly when the diff has more than 50 *)
(* of them.                                                                *)
(***************************************************************************)
C16_AtMostFiftyHunks ==
    \A j \in DOMAIN updates :
        LET t == Resolve(updates[j].path)
        IN (Previewed(j) /\ updates[j].type = "write" /\ fs[t].t = "file" /\ fs[t].c # <<>>) =>
            LET n == ChangedParts(DiffLines(fs[t].c, updates[j].content))
            IN /\ RenderedHunks(updates[j].path) <= 50
               /\ n > 50 <=> Printed(Line("truncated", updates[j].path, ""))

\* the lines the preview printed for a path, in order
PreviewOf(p) == SelectSeq(console, LAMBDA l : l.p = p /\ l.k \in PreviewKinds)

\* the added and removed parts of a diff as the preview writes them
SignedParts(changes, p) ==
    LET changed == SelectSeq(changes, LAMBDA part : part.k # "same")
    IN [n \in 1..Len(changed) |->
            IF changed[n].k = "added" THEN Line("added", p, Prefixed("+ ", changed[n].v))
            ELSE Line("removed", p, Prefixed("- ", changed[n].v))]

(***************************************************************************)
(* C17. The preview classifies every Write exactly one way: as a new file, *)
(* without a diff, when its target does not exist or cannot be read, and   *)
(* as the diff of the old against the new content when the target is an    *)
(* existing file, an empty one included.                                   *)
(***************************************************************************)
C17_PreviewClassification ==
    \A j \in DOMAIN updates :
        LET p == updates[j].path
            t == Resolve(p)
            changes == DiffLines(fs[t].c, updates[j].content)
        IN (Previewed(j) /\ updates[j].type = "write") =>
            IF fs[t].t = "file"
            THEN /\ ~Printed(Line("newfile", p, ""))
                 /\ Printed(Line("enddiff", p, ""))
                 /\ ChangedParts(changes) <= 50 =>
                        PreviewOf(p) = <<Line("path", p, "")>> \o SignedParts(changes, p)
                                       \o <<Line("enddiff", p, "")>>
            ELSE PreviewOf(p) = <<Line("path", p, ""), Line("newfile", p, "")>>

\* the write directives of a list
WritesOf(us) == SelectSeq(us, LAMBDA u : u.type = "write")

(***************************************************************************)
(* C18. The content of every extracted Write is the text of the input      *)
(* between its opening tag and the first closing tag behind it, with only  *)
(* leading and trailing whitespace removed: a fence marker inside a body   *)
(* is part of the content.                                                 *)
(***************************************************************************)
C18_BodyCapturedUnchanged ==
    Extracted => WritesOf(updates) = ScanWrites(clipboard, 1)

(***************************************************************************)
(* C19. Every directive of the extracted list has a non-empty path: a      *)
(* write or delete tag whose path attribute is empty yields no directive.  *)
(***************************************************************************)
C19_NonEmptyPath ==
    \A j \in DOMAIN updates : updates[j].path # PathEmpty

\* one statement of the try block as a function of the tree, when no call
\* fails for a reason the tree does not hold: the tree it leaves and whether
\* it threw into the catch of line 322
StageResult(f, u, st, backups) ==
    LET t == Resolve(u.path)
    IN IF st = "backup"
       THEN IF backups
            THEN LET r == CopyFile(f, t, Bak(t), "")
                 IN [fs |-> r.fs, thrown |-> CopyErrorEscapes(r.err)]
            ELSE [fs |-> f, thrown |-> FALSE]
       ELSE IF st = "unlink"
       THEN [fs |-> Unlink(f, t, "").fs, thrown |-> FALSE]
       ELSE IF st = "mkdir"
       THEN LET r == Mkdir(f, Dirname(t), "")
            IN [fs |-> r.fs, thrown |-> r.err # ""]
       ELSE LET r == WriteFile(f, t, u.content, "")
            IN [fs |-> r.fs, thrown |-> r.err # ""]

\* one iteration of the apply loop (lines 307-322) from statement k on
RECURSIVE ApplyOne(_, _, _, _)
ApplyOne(f, u, k, backups) ==
    LET r == StageResult(f, u, Stages(u)[k], backups)
    IN IF r.thrown \/ k = Len(Stages(u)) THEN r ELSE ApplyOne(r.fs, u, k + 1, backups)

\* the apply loop (lines 306-323) on a list of directives, from directive i on
RECURSIVE ApplyList(_, _, _, _)
ApplyList(f, us, i, backups) ==
    IF i > Len(us) THEN f
    ELSE LET r == ApplyOne(f, us[i], 1, backups)
         IN IF r.thrown /\ Caught(i, <<>>, us[i].path, "").pc # "Applying"
            THEN r.fs
            ELSE ApplyList(r.fs, us, i + 1, backups)

\* the loop over the directives is over
LoopOver == ended /\ pc \notin {"Idle", "Aborted"}

\* the orders of a list
Orders(us) ==
    {[i \in 1..Len(us) |-> us[q[i]]] :
        q \in {q \in [1..Len(us) -> 1..Len(us)] :
                    \A i, j \in 1..Len(us) : q[i] = q[j] => i = j}}

\* the paths a directive reads or writes besides the parents it creates
Footprint(u) == {Resolve(u.path), Bak(Resolve(u.path))}

\* no path of one footprint is a path of the other or lies above one
Independent(u, v) ==
    \A a \in Footprint(u), b \in Footprint(v) :
        a \notin Prefixes(b) /\ b \notin Prefixes(a)

PairwiseIndependent(us) ==
    \A i, j \in DOMAIN us : i # j => Independent(us[i], us[j])

\* every call of the run succeeded or failed for what the tree held
NoOutsideFailure == \A n \in DOMAIN iolog : iolog[n].err \notin {"EACCES", "ENOSPC"}

C21_SameContentNoHunks ==
    \A j \in DOMAIN updates :
        (/\ Previewed(j) /\ updates[j].type = "write"
         /\ fs[Resolve(updates[j].path)] = File(updates[j].content)) =>
            /\ RenderedHunks(updates[j].path) = 0
            /\ ~Printed(Line("truncated", updates[j].path, ""))

C21_Witness ==
    /\ Previewed(1) /\ updates[1].type = "write"
    /\ fs[Resolve(updates[1].path)] = File(updates[1].content)
    /\ Len(updates[1].content) > 50
    /\ Printed(Line("enddiff", updates[1].path, ""))

\* the record the configuration file holds, as JSON.parse reads it
ConfigRecord(f) == JsonParse(f[Resolve(CONFIG_FILE)].c)

\* the configuration file holds a record whose backup field is truthy
BackupFieldTruthy(f) ==
    /\ f[Resolve(CONFIG_FILE)].t = "file"
    /\ ConfigRecord(f).ok /\ ConfigRecord(f).k = "object"
    /\ "backup" \in DOMAIN ConfigRecord(f).members
    /\ LET value == ConfigRecord(f).members["backup"]
       IN value \notin {JLit("false"), JLit("null"), JLit("0"), JStr("")}

(***************************************************************************)
(* C22. Reading the backup preference never raises an error to its caller; *)
(* it gives false whenever the configuration file is missing, unreadable   *)
(* or not valid JSON, and true only when the backup field of the record is *)
(* truthy.                                                                 *)
(***************************************************************************)
C22_PreferenceReadNeverFails ==
    /\ \A fault \in Faults :
        LET status == GetBackupStatusCall(fs, fault)
        IN /\ ~status.thrown
           /\ (fs[Resolve(CONFIG_FILE)].t # "file" \/ fault # "" \/ ~ConfigRecord(fs).ok) =>
                  status.v = FALSE
           /\ status.v = TRUE => BackupFieldTruthy(fs)
    /\ \A l \in DOMAIN console :
        /\ console[l] # Line("uncaught", <<>>, "getBackupStatus")
        /\ (console[l] = Line("status", <<>>, "ENABLED") /\ l = 1) => BackupFieldTruthy(fs0)

C22_Witness ==
    /\ Len(console) = 3
    /\ \A l \in DOMAIN console : console[l] = Line("status", <<>>, "DISABLED")
    /\ fs[Resolve(CONFIG_FILE)].t = "file" /\ ~ConfigRecord(fs).ok

\* the positions of the console at which a toggle reported its success
Toggles == {l \in DOMAIN console : console[l].k \in {"enabled", "disabled"}}

\* every command so far succeeded
EachSucceeded == \A l \in DOMAIN console : console[l].k # "uncaught"

(***************************************************************************)
(* C23. After any sequence of backup --on and backup --off commands that   *)
(* each succeed, reading the preference gives the value the last of them   *)
(* set, and the record in the file has the backup field and no other:      *)
(* fields the file held before are discarded, not merged.                  *)
(***************************************************************************)
C23_LastToggleWins ==
    (EachSucceeded /\ Toggles # {}) =>
        LET last == console[SetMax(Toggles)]
        IN /\ GetBackupStatus(fs) = (last.k = "enabled")
           /\ ConfigRecord(fs).ok /\ ConfigRecord(fs).k = "object"
           /\ DOMAIN ConfigRecord(fs).members = {"backup"}
           /\ fs[Resolve(CONFIG_FILE)] = File(CfgText(last.k = "enabled"))

C23_Witness ==
    /\ EachSucceeded
    /\ fs0[Resolve(CONFIG_FILE)].t = "file" /\ ConfigRecord(fs0).ok
    /\ ConfigRecord(fs0).k = "object" /\ "other" \in DOMAIN ConfigRecord(fs0).members
    /\ console = <<Line("disabled", <<>>, ""), Line("enabled", <<>>, ""),
                   Line("disabled", <<>>, "")>>
    /\ ~GetBackupStatus(fs)

\* a screen of the copy command flags the file
Flagged(f, file) ==
    \/ \E i \in DOMAIN file : Includes(file[i], ".env")
    \/ \E i \in DOMAIN f[file].c : f[file].c[i].k \in {"secret", "nul"}
    \/ Size(f[file].c) > MAX_FILE_SIZE

\* the payload holds the block of a file with this content
InPayload(payload, file, c) ==
    \E i \in DOMAIN payload :
        /\ payload[i] = FileHeader(file)
        /\ i + Len(c) + 2 <= Len(payload)
        /\ SubSeq(payload, i + 1, i + Len(c) + 2) = <<Fence>> \o c \o <<Fence>>

\* the payload names the file
Named(payload, file) == \E i \in DOMAIN payload : payload[i] = FileHeader(file)

ReplayCall(f, e) ==
    LET fault == IF e.err \in {"EACCES", "ENOSPC"} THEN e.err ELSE ""
        data == IF e.i \in DOMAIN updates /\ updates[e.i].type = "write"
                THEN updates[e.i].content ELSE <<>>
    IN IF e.op = "copyFile" THEN CopyFile(f, e.p, Bak(e.p), fault).fs
       ELSE IF e.op = "unlink" THEN Unlink(f, e.p, fault).fs
       ELSE IF e.op = "mkdir" THEN Mkdir(f, e.p, fault).fs
       ELSE WriteFile(f, e.p, data, fault).fs

RECURSIVE Replay(_, _)
Replay(f, calls) == IF calls = <<>> THEN f ELSE Replay(ReplayCall(f, Head(calls)), Tail(calls))

\* the tree the calls of directives 1..j left behind
TreeAfter(j) == Replay(fs0, SelectSeq(iolog, LAMBDA e : e.i <= j))

\* the trees before directive 1, 2, ... and after the last one
RunTrees == SubSeq([j \in 1..(Len(updates) + 1) |-> TreeAfter(j - 1)], 1, Len(updates) + 1)

\* the paths the calls of directive j changed
ChangedBy(j) == {q \in DOMAIN fs : RunTrees[j + 1][q] # RunTrees[j][q]}

(***************************************************************************)
(* C25 as stated. When a directive fails, what every earlier directive of  *)
(* the run did to the tree (files written, files removed, backups,         *)
(* directories created) is still there when the run reaches Done.          *)
(***************************************************************************)
C25_EarlierEffectsPresent ==
    (pc = "Done" /\ \E j \in DOMAIN updates : Failed(j)) =>
        LET trees == RunTrees
        IN \A j \in DOMAIN updates : \A i \in 1..(j - 1) :
            Failed(j) =>
                \A q \in DOMAIN fs : trees[i + 1][q] # trees[i][q] => fs[q] = trees[i + 1][q]

(***************************************************************************)
(* C25 amended. When a directive fails, nothing is undone: what every      *)
(* earlier directive did to a path is still there when the run reaches     *)
(* Done, unless a call of a later directive changed that path itself.      *)
(***************************************************************************)
C25_NothingUndone ==
    (pc = "Done" /\ \E j \in DOMAIN updates : Failed(j)) =>
        LET trees == RunTrees
        IN \A j \in DOMAIN updates : \A i \in 1..(j - 1) :
            Failed(j) =>
                \A q \in DOMAIN fs :
                    (/\ trees[i + 1][q] # trees[i][q]
                     /\ \A k \in (i + 1)..Len(updates) : trees[k + 1][q] = trees[k][q]) =>
                        fs[q] = trees[i + 1][q]

C25_Witness ==
    /\ pc = "Done" /\ Len(updates) = 2 /\ Failed(2) /\ OwnIoOk(1)
    /\ backupsEnabled /\ updates[1].type = "write"
    /\ {Resolve(updates[1].path), Bak(Resolve(updates[1].path))} \subseteq ChangedBy(1)
    /\ ChangedBy(2) # {}
    /\ fs[Resolve(updates[1].path)] = File(updates[1].content)
    /\ fs # fs0

\* the call `op` of directive j, if it was made: its position in the record
CallAt(j, op) == {n \in DOMAIN iolog : iolog[n].i = j /\ iolog[n].op = op}

\* the parents of directive j's target could not be created
ParentsFailed(j) == \E n \in CallAt(j, "mkdir") : iolog[n].err # ""

(***************************************************************************)
(* C26. A Write whose parent directories are missing creates every missing *)
(* intermediate directory and then the file (no call failing for a reason  *)
(* the tree does not hold).  When the parent chain cannot                  *)
(* be created (an ancestor is a regular file, say), an error is printed    *)
(* for the directive's path, neither its target nor a backup is written,   *)
(* and the run goes on with the next directive.                            *)
(***************************************************************************)
C26_ParentsCreatedOrReported ==
    \A j \in DOMAIN updates :
        LET t == Resolve(updates[j].path)
        IN (JustCompleted(j) /\ updates[j].type = "write") =>
            /\ (/\ \A q \in Prefixes(Dirname(t)) : pre[q].t # "file"
                /\ pre[t].t # "dir"
                /\ \A n \in DOMAIN iolog :
                        iolog[n].i = j => iolog[n].err \notin {"EACCES", "ENOSPC"}) =>
                /\ \A q \in Prefixes(Dirname(t)) : fs[q] = Dir
                /\ fs[t] = File(updates[j].content)
                /\ \A m \in CallAt(j, "mkdir"), n \in CallAt(j, "writeFile") : m < n
                /\ CallAt(j, "mkdir") # {} /\ CallAt(j, "writeFile") # {}
            /\ ParentsFailed(j) =>
                /\ \E n \in CallAt(j, "mkdir") :
                        Printed(Line("error", updates[j].path, iolog[n].err))
                /\ CallAt(j, "copyFile") = {} /\ CallAt(j, "writeFile") = {}
                /\ fs[t] = pre[t] /\ fs[Bak(t)] = pre[Bak(t)]
                /\ pc = "Applying" \/ (pc = "Done" /\ j = Len(updates))

C26_Witness ==
    /\ pc = "Done" /\ Len(updates) = 2 /\ backupsEnabled
    /\ updates[1].path = PathDB /\ ParentsFailed(1) /\ fs0[PathD].t = "file"
    /\ updates[2].path = PathEFG /\ OwnIoOk(2)
    /\ fs0[PathE].t = "none" /\ fs[PathE] = Dir /\ fs[PathEF] = Dir
    /\ fs[PathEFG] = File(updates[2].content)

\* this step is a call `op` of the loop on path t that succeeded
Succeeds(op, t) ==
    /\ Len(iolog') = Len(iolog) + 1
    /\ iolog'[Len(iolog')].op = op /\ iolog'[Len(iolog')].p = t
    /\ iolog'[Len(iolog')].err = ""

\* this step mutates the existing target t of a directive that has backed it up
BackedUpMutation(t) ==
    /\ pc = "Applying" /\ backupsEnabled /\ fs[t].t = "file"
    /\ Succeeds("writeFile", t) \/ Succeeds("unlink", t)
    /\ iolog # <<>> /\ iolog[Len(iolog)] = IoCall(idx, "copyFile", t, "")

\* a run of two Writes on one existing path with backups, both applied
TwoWritesSamePath ==
    /\ pc = "Done" /\ backupsEnabled /\ Len(updates) = 2
    /\ updates[1].type = "write" /\ updates[2].type = "write"
    /\ updates[1].path = updates[2].path
    /\ fs0[Resolve(updates[1].path)].t = "file"
    /\ \A n \in DOMAIN iolog : iolog[n].err = ""

(***************************************************************************)
(* C27. Only the latest backup generation is kept.  Whenever a target that *)
(* has been backed up is mutated, in the first run or any later one, its   *)
(* .bak sibling holds the content the target had right before that         *)
(* mutation, and only the backup of a later mutation of the same path      *)
(* replaces it.  After a run with two Writes for the same existing path    *)
(* the backup holds the first Write's content and the content from before  *)
(* the run is stored nowhere.                                              *)
(***************************************************************************)
C27_LatestBackupOnly ==
    /\ [][/\ Succeeds("copyFile", PathA) => fs'[Bak(PathA)] = fs[PathA]
          /\ BackedUpMutation(PathA) => fs'[Bak(PathA)] = fs[PathA]
          /\ ~Succeeds("copyFile", PathA) => fs'[Bak(PathA)] = fs[Bak(PathA)]]_vars
    /\ [](TwoWritesSamePath =>
            LET t == Resolve(updates[1].path)
            IN /\ fs[Bak(t)] = File(updates[1].content)
               /\ fs0[t] \notin {File(updates[1].content), File(updates[2].content)} =>
                      \A q \in DOMAIN fs : fs[q] # fs0[t])

C27_Witness ==
    /\ TwoWritesSamePath
    /\ fs0[PathA] \notin {File(updates[1].content), File(updates[2].content)}
    /\ fs0[Bak(PathA)] = File(<<Ch("x")>>)
    /\ fs[Bak(PathA)] = File(<<Ch("y")>>)

\* the positions of the Writes and of the Deletes of path p in the list
WritesTo(p) == {i \in DOMAIN updates : updates[i].type = "write" /\ updates[i].path = p}
DeletesOf(p) == {i \in DOMAIN updates : updates[i].type = "delete" /\ updates[i].path = p}

\* the run is over and every call of it succeeded (a backup of a target that
\* does not exist yet apart)
FullySuccessful == pc = "Done" /\ \A j \in DOMAIN updates : OwnIoOk(j)

(***************************************************************************)
(* C28. A path named by a write tag and by a delete tag of the same text   *)
(* is absent after a fully successful run, whichever tag came first in the *)
(* text; with backups enabled its .bak sibling then holds the content just *)
(* written, not the content from before the run.                           *)
(***************************************************************************)
C28_WriteAndDeleteLeavesAbsent ==
    FullySuccessful =>
        \A p \in {updates[i].path : i \in DOMAIN updates} :
            (WritesTo(p) # {} /\ DeletesOf(p) # {}) =>
                /\ fs[Resolve(p)] = None
                /\ backupsEnabled =>
                       fs[Bak(Resolve(p))] = File(updates[SetMax(WritesTo(p))].content)

C28_Witness ==
    /\ FullySuccessful /\ backupsEnabled
    /\ clipboard[1] = Del(PathA) /\ WritesTo(PathA) # {} /\ DeletesOf(PathA) # {}
    /\ fs0[PathA].t = "file" /\ fs[PathA] = None
    /\ fs[Bak(PathA)] # fs0[PathA] /\ fs[Bak(PathA)] # fs0[Bak(PathA)]

\* clipboard[o] opens a write tag that clipboard[c] closes: no tag is open at o
\* and c is the first closing tag behind o
WriteTagAt(o, c) ==
    /\ o < c /\ clipboard[o].k = "open" /\ clipboard[c].k = "close"
    /\ \A n \in (o + 1)..(c - 1) : clipboard[n].k # "close"
    /\ \A n \in 1..(o - 1) :
        clipboard[n].k = "open" => \E m \in (n + 1)..(o - 1) : clipboard[m].k = "close"

(***************************************************************************)
(* C29. The two scans are independent: a delete tag standing in the body   *)
(* of a write tag is extracted as a Delete directive, and applied once the *)
(* operator has confirmed, while it also stays part of the content of that *)
(* Write directive.                                                        *)
(***************************************************************************)
C29_DeleteInsideBody ==
    \A o, d, c \in DOMAIN clipboard :
        (/\ pc \in {"Previewing", "AwaitingConfirmation", "Aborted", "Applying", "Done"}
         /\ WriteTagAt(o, c) /\ o < d /\ d < c /\ clipboard[d].k = "del") =>
            /\ \E j \in DOMAIN updates : updates[j] = DeleteUpdate(clipboard[d].v)
            /\ \E i \in DOMAIN updates :
                /\ updates[i].type = "write" /\ updates[i].path = clipboard[o].v
                /\ \E n \in DOMAIN updates[i].content : updates[i].content[n] = clipboard[d]
            /\ pc = "Done" =>
                \E j \in DOMAIN updates, n \in DOMAIN iolog :
                    /\ updates[j] = DeleteUpdate(clipboard[d].v)
                    /\ iolog[n].i = j /\ iolog[n].op = "unlink"
                    /\ iolog[n].p = Resolve(clipboard[d].v)

C29_Witness ==
    /\ pc = "Done" /\ clipboard = <<Open(PathA), Del(PathA), Close>>
    /\ updates = <<WriteUpdate(PathA, <<Del(PathA)>>), DeleteUpdate(PathA)>>
    /\ fs0[PathA].t = "file" /\ fs[PathA] = None
    /\ \E n \in DOMAIN iolog : iolog[n] = IoCall(2, "unlink", PathA, "")

(***************************************************************************)
(* C30. A directive of the apply loop changes nothing but its resolved     *)
(* target, the missing parent directories of a Write target, and, only     *)
(* with the backup policy enabled and a target that existed, the target's  *)
(* .bak sibling.  With the policy disabled, and for a target that did not  *)
(* exist, the backup sibling is left as it was; before the loop nothing    *)
(* changes at all.                                                         *)
(***************************************************************************)
C30_ApplyFrame ==
    /\ pc \notin {"Applying", "Done"} => fs = fs0
    /\ \A j \in DOMAIN updates :
        LET t == Resolve(updates[j].path)
        IN JustCompleted(j) =>
            /\ \A q \in DOMAIN fs :
                fs[q] # pre[q] =>
                    \/ q = t
                    \/ /\ updates[j].type = "write" /\ q \in Prefixes(Dirname(t))
                       /\ pre[q] = None /\ fs[q] = Dir
                    \/ q = Bak(t) /\ backupsEnabled /\ pre[t].t = "file"
            /\ (~backupsEnabled \/ pre[t].t = "none") => fs[Bak(t)] = pre[Bak(t)]

C30_Witness ==
    /\ pc = "Done" /\ JustCompleted(2) /\ ~backupsEnabled
    /\ updates[2].type = "delete" /\ updates[1].type = "write"
    /\ pre[Resolve(updates[2].path)].t = "file" /\ fs[Resolve(updates[2].path)] = None
    /\ fs[Bak(Resolve(updates[2].path))] = File(StaleText)
    /\ fs0[PathD] = None /\ fs[PathD] = Dir


\* the number of selected files whose block was appended to the payload
AppendedCount(payload) ==
    Cardinality({n \in DOMAIN selectedFiles : Named(payload, selectedFiles[n])})

(***************************************************************************)
(* C31. When the copy command reports "Copied N files", N (the selected    *)
(* files minus the skipped ones) is the number of selected files whose     *)
(* content was appended to the payload placed on the clipboard, whatever   *)
(* mix of large, binary, secret-bearing and unreadable files was selected. *)
(***************************************************************************)
C31_CopiedCountIsAppended ==
    pc = "Copied" =>
        /\ Len(selectedFiles) - skippedCount = AppendedCount(clipboard)
        /\ Printed(Line("copied", <<>>, Digits[AppendedCount(clipboard) + 1]))

====
